---- MODULE Spec2Model ----
(***************************************************************************)
(* TrackStudio: the cross-camera identity fusion engine                    *)
(* (trackstudio/mergers/bev_cluster.py, BEVClusterMerger) and the stream   *)
(* synchronisation engine (trackstudio/core/stream_combiner.py,            *)
(* StreamCombinerTrack), as state machines.                                *)
(*                                                                         *)
(* Floats that the code averages (np.mean, (p + o) / 2.0) are kept as      *)
(* exact fractions [num, den]; the strings the merger uses as global ids   *)
(* (str(next_global_id)) are kept as sequences of decimal digits.          *)
(***************************************************************************)
EXTENDS Integers, Sequences, FiniteSets, TLC

\* ------------------------------------------------------------------------
\* Bounds of the model
\* ------------------------------------------------------------------------

\* merge() is called with timestamps up to MaxTime
MaxTime == 10

\* ------------------------------------------------------------------------
\* Configuration (CrossCameraConfig)
\* ------------------------------------------------------------------------

spatial_threshold == 50

\* appearance_threshold = 0.4, as the fraction 2/5
appearance_threshold == [num |-> 2, den |-> 5]

max_track_age_s == 3

\* the 1e-8 added to the product of the norms, as 1 / EpsInv
EpsInv == 100000000

\* Python's None, where a feature vector is optional
NoneVal == <<>>

\* ------------------------------------------------------------------------
\* Generic helpers
\* ------------------------------------------------------------------------

Range(s) == {s[i] : i \in DOMAIN s}

\* the function f without the keys in ks (del d[k])
Without(f, ks) == [k \in (DOMAIN f) \ ks |-> f[k]]

\* d[k] = v on a dict
Put(f, k, v) == [x \in (DOMAIN f) \cup {k} |-> IF x = k THEN v ELSE f[x]]

\* d.update(g)
Update(f, g) == [x \in (DOMAIN f) \cup (DOMAIN g) |-> IF x \in DOMAIN g THEN g[x] ELSE f[x]]

EmptyDict == [x \in {} |-> NoneVal]

\* str(n) for n >= 0: the decimal digits
RECURSIVE Str(_)
Str(n) == IF n < 10 THEN <<n>> ELSE Append(Str(n \div 10), n % 10)

\* int(s) for a string of decimal digits
RECURSIVE Int_(_)
Int_(s) == IF Len(s) = 0 THEN 0 ELSE 10 * Int_(SubSeq(s, 1, Len(s) - 1)) + s[Len(s)]

RECURSIVE SumSeq(_)
SumSeq(s) == IF Len(s) = 0 THEN 0 ELSE s[1] + SumSeq(Tail(s))

\* a float that is the integer n
Whole(n) == [num |-> n, den |-> 1]

\* float(np.mean(xs)) of integers xs
Mean(xs) == [num |-> SumSeq(xs), den |-> Len(xs)]

\* the square root of a perfect square (np.linalg.norm of the feature vectors used)
ISqrt(n) == CHOOSE r \in 0..n : r * r = n

Dot(f, g) == f[1] * g[1] + f[2] * g[2]

Norm(f) == ISqrt(Dot(f, f))

\* ------------------------------------------------------------------------
\* The merger's inputs: BEV tracks and ReID features
\* ------------------------------------------------------------------------

\* positions on the ground plane: PNear1 and PNear2 are exactly
\* spatial_threshold apart, PFar is far from both
PNear1 == <<0, 0>>
PNear2 == <<30, 40>>
PFar == <<500, 500>>

\* the local tracks of the model: two of camera 0, one of camera 1
KeyA == <<0, "a">>
KeyC == <<0, "c">>
KeyB == <<1, "b">>

BEVTrack(key, pos) ==
    [track_id |-> key[2], camera_id |-> key[1], bev_x |-> pos[1], bev_y |-> pos[2]]

\* what one local track can be in a batch: absent (<<>>) or present somewhere
Places(key) ==
    IF key = KeyB THEN {<<>>, <<BEVTrack(key, PNear2)>>}
    ELSE {<<>>, <<BEVTrack(key, PNear1)>>, <<BEVTrack(key, PFar)>>}

\* the batches: camera 0's tracks, then camera 1's (vision_api collects them per stream)
Batches == {a \o c \o b : a \in Places(KeyA), c \in Places(KeyC), b \in Places(KeyB)}

\* camera_id = None: a value that equals no camera id
NoCamera == -1

\* a track without camera id, at PNear1
KeyN == <<NoCamera, "n">>

\* the batches with the track without camera id: it, then camera 0's track a,
\* then camera 1's
MalformedBatches ==
    {<<BEVTrack(KeyN, PNear1)>> \o a \o b : a \in Places(KeyA), b \in Places(KeyB)}

\* the tracks of the two-camera scenario: camera 0 at (100, 100), camera 1 at
\* (105, 102), camera 0 at (500, 500)
ScenarioTracks ==
    <<BEVTrack(KeyA, <<100, 100>>), BEVTrack(KeyB, <<105, 102>>), BEVTrack(KeyC, <<500, 500>>)>>

\* the batches made of scenario tracks: each track at most once, in any order
ScenarioBatches ==
    {batch \in UNION {[1..n -> Range(ScenarioTracks)] : n \in 1..Len(ScenarioTracks)} :
        \A i, j \in 1..Len(batch) : batch[i] = batch[j] => i = j}

\* the reid_features dicts: none, only track b's, or all three.
\* cos(a, b) = 3/5, so the cosine distance of a and b is exactly 0.4;
\* cos(c, b) = 4/5, cosine distance 0.2.
FeatA == <<1, 0>>
FeatB == <<3, 4>>
FeatC == <<0, 1>>
ReidFeatureSets ==
    { EmptyDict,
      [k \in {"b"} |-> FeatB],
      [k \in {"a", "b", "c"} |-> CASE k = "a" -> FeatA [] k = "b" -> FeatB [] OTHER -> FeatC] }

\* the clock between two merge calls
TimeSteps == {max_track_age_s, max_track_age_s + 1}

\* ------------------------------------------------------------------------
\* BEVClusterMerger, as operators on the merger's state
\*   m = [global_tracks, next_global_id, track_id_mapping,
\*        total_tracks_created, multi_camera_associations]
\* ------------------------------------------------------------------------

\* BEVClusterMerger.__init__
NewMerger ==
    [global_tracks |-> EmptyDict,
     next_global_id |-> 1,
     track_id_mapping |-> EmptyDict,
     total_tracks_created |-> 0,
     multi_camera_associations |-> 0]

\* the (camera id, local track id) entries of a camera_tracks dict
Memberships(camera_tracks) == {<<cam, camera_tracks[cam]>> : cam \in DOMAIN camera_tracks}

\* the global ids that _cleanup_old_tracks collects in expired_ids
ExpiredIds(m, current_timestamp) ==
    {g \in DOMAIN m.global_tracks :
        current_timestamp - m.global_tracks[g].last_seen > max_track_age_s}

\* _cleanup_old_tracks
CleanupOldTracks(m, current_timestamp) ==
    LET expired_ids == ExpiredIds(m, current_timestamp)
        keys == UNION {Memberships(m.global_tracks[g].camera_tracks) : g \in expired_ids}
    IN  [m EXCEPT !.track_id_mapping = Without(@, keys),
                  !.global_tracks = Without(@, expired_ids)]

\* the TrackCandidate list that merge() builds; original_bev_track is the
\* position of the track object in the batch
Candidates(bev_tracks, reid_features) ==
    [i \in 1..Len(bev_tracks) |->
        [camera_id |-> bev_tracks[i].camera_id,
         local_track_id |-> bev_tracks[i].track_id,
         position |-> <<bev_tracks[i].bev_x, bev_tracks[i].bev_y>>,
         appearance_features |->
            IF bev_tracks[i].track_id \in DOMAIN reid_features
            THEN reid_features[bev_tracks[i].track_id] ELSE NoneVal,
         original_bev_track |-> i]]

\* SpatialTooFar with a threshold of a tenth of spatial_threshold
SpatialTooFarTenth(p, q) ==
    100 * ((p[1] - q[1]) * (p[1] - q[1]) + (p[2] - q[2]) * (p[2] - q[2]))
        > spatial_threshold * spatial_threshold

\* spatial_dist > spatial_threshold, on the squares
SpatialTooFar(p, q) ==
    (p[1] - q[1]) * (p[1] - q[1]) + (p[2] - q[2]) * (p[2] - q[2])
        > spatial_threshold * spatial_threshold

\* appearance_dist > appearance_threshold, where
\*   cosine_sim = dot / (|f| |g| + 1e-8) and appearance_dist = 1 - cosine_sim:
\*   1 - dot E / (n E + 1) > num / den  <=>  (den - num)(n E + 1) > den dot E
AppearanceTooFar(f, g) ==
    LET n == Norm(f) * Norm(g)
    IN  (appearance_threshold.den - appearance_threshold.num) * (n * EpsInv + 1)
            > appearance_threshold.den * Dot(f, g) * EpsInv

\* adj_matrix[i, j] of _cluster_tracks
Adjacent(ci, cj) ==
    /\ ci.camera_id # cj.camera_id
    /\ ~SpatialTooFar(ci.position, cj.position)
    /\ ~(/\ ci.appearance_features # NoneVal
         /\ cj.appearance_features # NoneVal
         /\ AppearanceTooFar(ci.appearance_features, cj.appearance_features))

\* _dfs: st = [visited, cluster]; DfsFrom is the loop over v from v0 on
RECURSIVE Dfs(_, _, _), DfsFrom(_, _, _, _)
Dfs(u, candidates, st) ==
    DfsFrom(u, 1, candidates,
            [visited |-> st.visited \cup {u}, cluster |-> Append(st.cluster, u)])
DfsFrom(u, v0, candidates, st) ==
    IF v0 > Len(candidates) THEN st
    ELSE IF Adjacent(candidates[u], candidates[v0]) /\ v0 \notin st.visited
         THEN DfsFrom(u, v0 + 1, candidates, Dfs(v0, candidates, st))
         ELSE DfsFrom(u, v0 + 1, candidates, st)

\* _cluster_tracks: the clusters, each a sequence of candidate indices
RECURSIVE ClustersFrom(_, _, _)
ClustersFrom(i, candidates, visited) ==
    IF i > Len(candidates) THEN <<>>
    ELSE IF i \in visited THEN ClustersFrom(i + 1, candidates, visited)
         ELSE LET st == Dfs(i, candidates, [visited |-> visited, cluster |-> <<>>])
              IN  <<st.cluster>> \o ClustersFrom(i + 1, candidates, st.visited)

ClusterTracks(candidates) == ClustersFrom(1, candidates, {})

\* {c.camera_id: c.local_track_id for c in cluster}: a later member overwrites
RECURSIVE CameraTracksOf(_, _)
CameraTracksOf(cluster, candidates) ==
    IF Len(cluster) = 0 THEN EmptyDict
    ELSE LET c == candidates[cluster[Len(cluster)]]
         IN  Put(CameraTracksOf(SubSeq(cluster, 1, Len(cluster) - 1), candidates),
                 c.camera_id, c.local_track_id)

\* np.mean(features, axis=0) over the members that carry features, or None;
\* an averaged feature vector is the pair <<sums, divisor>>
MeanFeatures(cluster, candidates) ==
    LET features == SelectSeq([k \in 1..Len(cluster) |-> candidates[cluster[k]].appearance_features],
                              LAMBDA f : f # NoneVal)
    IN  IF Len(features) = 0 THEN NoneVal
        ELSE << <<SumSeq([k \in 1..Len(features) |-> features[k][1]]),
                  SumSeq([k \in 1..Len(features) |-> features[k][2]])>>,
                Len(features) >>

\* a variant of _create_new_global_track_for_cluster that leaves the id
\* counter where it is
CreateNewGlobalTrackKeepingCounter(m, cluster, candidates, timestamp) ==
    LET global_id == Str(m.next_global_id)
        track == [global_id |-> global_id,
                  camera_tracks |-> CameraTracksOf(cluster, candidates),
                  last_seen |-> timestamp,
                  positions |-> << <<Mean([k \in 1..Len(cluster) |-> candidates[cluster[k]].position[1]]),
                                     Mean([k \in 1..Len(cluster) |-> candidates[cluster[k]].position[2]]),
                                     timestamp>> >>,
                  appearance_features |-> MeanFeatures(cluster, candidates)]
    IN  [m |-> [m EXCEPT !.global_tracks = Put(@, global_id, track),
                         !.total_tracks_created = @ + 1],
         global_id |-> global_id]

\* _create_new_global_track_for_cluster: [m, global_id]
CreateNewGlobalTrackForCluster(m, cluster, candidates, timestamp) ==
    LET global_id == Str(m.next_global_id)
        avg_x == Mean([k \in 1..Len(cluster) |-> candidates[cluster[k]].position[1]])
        avg_y == Mean([k \in 1..Len(cluster) |-> candidates[cluster[k]].position[2]])
        track == [global_id |-> global_id,
                  camera_tracks |-> CameraTracksOf(cluster, candidates),
                  last_seen |-> timestamp,
                  positions |-> << <<avg_x, avg_y, timestamp>> >>,
                  appearance_features |-> MeanFeatures(cluster, candidates)]
    IN  [m |-> [m EXCEPT !.next_global_id = @ + 1,
                         !.global_tracks = Put(@, global_id, track),
                         !.total_tracks_created = @ + 1],
         global_id |-> global_id]

\* (p + o) / 2.0 on averaged feature vectors
HalfSum(p, o) ==
    << <<p[1][1] * o[2] + o[1][1] * p[2], p[1][2] * o[2] + o[1][2] * p[2]>>, 2 * p[2] * o[2] >>

\* list.sort(key=lambda p: p[2]): a stable insertion sort on the timestamp
RECURSIVE InsertByTime(_, _)
InsertByTime(sorted, p) ==
    IF Len(sorted) = 0 THEN <<p>>
    ELSE IF sorted[Len(sorted)][3] <= p[3] THEN Append(sorted, p)
         ELSE Append(InsertByTime(SubSeq(sorted, 1, Len(sorted) - 1), p), sorted[Len(sorted)])

RECURSIVE SortByTime(_)
SortByTime(ps) ==
    IF Len(ps) = 0 THEN <<>>
    ELSE InsertByTime(SortByTime(SubSeq(ps, 1, Len(ps) - 1)), ps[Len(ps)])

\* max(global_ids, key=int): the highest-numbered id as the primary
MaxById(global_ids) ==
    CHOOSE g \in global_ids : \A h \in global_ids : Int_(h) <= Int_(g)

\* min(global_ids, key=int)
MinById(global_ids) ==
    CHOOSE g \in global_ids : \A h \in global_ids : Int_(g) <= Int_(h)

\* the order in which `for gid in global_ids` visits a set of strings: it is
\* the set's hash order, here either ascending or descending by number
RECURSIVE IterationOrder(_, _)
IterationOrder(global_ids, descending) ==
    IF global_ids = {} THEN <<>>
    ELSE LET g == IF descending
                  THEN CHOOSE x \in global_ids : \A h \in global_ids : Int_(h) <= Int_(x)
                  ELSE MinById(global_ids)
         IN  <<g>> \o IterationOrder(global_ids \ {g}, descending)

\* the loop body of _merge_global_tracks without its remapping of the other
\* track's (camera id, local track id) keys
MergeOneWithoutRemap(m, primary_id, gid) ==
    IF gid = primary_id \/ gid \notin DOMAIN m.global_tracks THEN m
    ELSE LET primary_track == m.global_tracks[primary_id]
             other_track == m.global_tracks[gid]
             merged ==
                 [primary_track EXCEPT
                    !.camera_tracks = Update(@, other_track.camera_tracks),
                    !.positions = @ \o other_track.positions,
                    !.appearance_features =
                        IF other_track.appearance_features # NoneVal
                        THEN IF @ = NoneVal THEN other_track.appearance_features
                             ELSE HalfSum(@, other_track.appearance_features)
                        ELSE @]
         IN  [m EXCEPT !.global_tracks = Without(Put(@, primary_id, merged), {gid})]

\* one pass of the loop body of _merge_global_tracks for gid
MergeOne(m, primary_id, gid) ==
    IF gid = primary_id \/ gid \notin DOMAIN m.global_tracks THEN m
    ELSE LET primary_track == m.global_tracks[primary_id]
             other_track == m.global_tracks[gid]
             merged ==
                 [primary_track EXCEPT
                    !.camera_tracks = Update(@, other_track.camera_tracks),
                    !.positions = @ \o other_track.positions,
                    !.appearance_features =
                        IF other_track.appearance_features # NoneVal
                        THEN IF @ = NoneVal THEN other_track.appearance_features
                             ELSE HalfSum(@, other_track.appearance_features)
                        ELSE @]
             remapped == [k \in Memberships(other_track.camera_tracks) |-> primary_id]
         IN  [m EXCEPT !.track_id_mapping = Update(@, remapped),
                       !.global_tracks = Without(Put(@, primary_id, merged), {gid})]

RECURSIVE MergeLoop(_, _, _)
MergeLoop(m, primary_id, order) ==
    IF Len(order) = 0 THEN m
    ELSE MergeLoop(MergeOne(m, primary_id, order[1]), primary_id, Tail(order))

\* _merge_global_tracks: [m, primary_id, raised]; raised is the KeyError of
\* self.global_tracks[primary_id]
MergeGlobalTracks(m, global_ids, timestamp, descending) ==
    LET primary_id == MinById(global_ids)
    IN  IF primary_id \notin DOMAIN m.global_tracks
        THEN [m |-> m, primary_id |-> primary_id, raised |-> TRUE]
        ELSE LET m1 == MergeLoop(m, primary_id, IterationOrder(global_ids, descending))
                 done == [m1.global_tracks[primary_id] EXCEPT
                            !.positions = SortByTime(@),
                            !.last_seen = timestamp]
             IN  [m |-> [m1 EXCEPT !.global_tracks = Put(@, primary_id, done)],
                  primary_id |-> primary_id,
                  raised |-> FALSE]

\* the (camera_id, local_track_id) key of a candidate
KeyOf(c) == <<c.camera_id, c.local_track_id>>

\* updated_track.global_id = int(global_id) on the candidate's track object
Tagged(bev_tracks, c, global_id) ==
    [track_id |-> bev_tracks[c.original_bev_track].track_id,
     camera_id |-> bev_tracks[c.original_bev_track].camera_id,
     bev_x |-> bev_tracks[c.original_bev_track].bev_x,
     bev_y |-> bev_tracks[c.original_bev_track].bev_y,
     global_id |-> Int_(global_id),
     object |-> c.original_bev_track]

\* the branch of _assign_global_ids_to_clusters for a cluster of one track.
\* st = [m, updated_tracks, raised, merges]
AssignSingle(st, candidate, cluster, candidates, bev_tracks, timestamp) ==
    LET key == KeyOf(candidate)
        m == st.m
    IN  IF key \in DOMAIN m.track_id_mapping
        THEN LET global_id == m.track_id_mapping[key]
                 m1 == IF global_id \in DOMAIN m.global_tracks
                       THEN [m EXCEPT !.global_tracks[global_id].last_seen = timestamp,
                                      !.global_tracks[global_id].positions =
                                          Append(@, <<Whole(candidate.position[1]),
                                                      Whole(candidate.position[2]),
                                                      timestamp>>)]
                       ELSE m
             IN  [st EXCEPT !.m = m1,
                            !.updated_tracks = Append(@, Tagged(bev_tracks, candidate, global_id))]
        ELSE LET created == CreateNewGlobalTrackForCluster(m, cluster, candidates, timestamp)
             IN  [st EXCEPT !.m = [created.m EXCEPT !.track_id_mapping =
                                                        Put(@, key, created.global_id)],
                            !.updated_tracks =
                                Append(@, Tagged(bev_tracks, candidate, created.global_id))]

\* the loop "Update all candidates with the same global ID"
RECURSIVE TagAll(_, _, _, _, _, _)
TagAll(st, k, cluster, candidates, bev_tracks, primary_id) ==
    IF k > Len(cluster) THEN st
    ELSE LET candidate == candidates[cluster[k]]
         IN  TagAll([st EXCEPT !.m.track_id_mapping = Put(@, KeyOf(candidate), primary_id),
                               !.updated_tracks =
                                   Append(@, Tagged(bev_tracks, candidate, primary_id))],
                    k + 1, cluster, candidates, bev_tracks, primary_id)

\* the branch for a cluster of several tracks.  Each call of
\* _merge_global_tracks is entered in st.merges with the registry before and
\* after it.
AssignMulti(st, cluster, candidates, bev_tracks, timestamp, descending) ==
    LET m == st.m
        existing_global_ids ==
            {m.track_id_mapping[KeyOf(candidates[cluster[k]])] :
                k \in {j \in 1..Len(cluster) :
                          KeyOf(candidates[cluster[j]]) \in DOMAIN m.track_id_mapping}}
    IN  IF existing_global_ids # {}
        THEN LET merged == MergeGlobalTracks(m, existing_global_ids, timestamp, descending)
             IN  IF merged.raised THEN [st EXCEPT !.raised = TRUE]
                 ELSE TagAll([st EXCEPT
                                !.m = [merged.m EXCEPT !.multi_camera_associations = @ + 1],
                                !.merges = Append(@, [global_ids |-> existing_global_ids,
                                                      primary_id |-> merged.primary_id,
                                                      before |-> m.global_tracks,
                                                      after |-> merged.m.global_tracks])],
                             1, cluster, candidates, bev_tracks, merged.primary_id)
        ELSE LET created == CreateNewGlobalTrackForCluster(m, cluster, candidates, timestamp)
             IN  TagAll([st EXCEPT !.m = created.m],
                        1, cluster, candidates, bev_tracks, created.global_id)

\* _assign_global_ids_to_clusters, from cluster number k on; an exception
\* ends the loop with the state as it is
RECURSIVE AssignFrom(_, _, _, _, _, _, _)
AssignFrom(st, k, clusters, candidates, bev_tracks, timestamp, descending) ==
    IF k > Len(clusters) \/ st.raised THEN st
    ELSE LET cluster == clusters[k]
             st1 == IF Len(cluster) = 1
                    THEN AssignSingle(st, candidates[cluster[1]], cluster, candidates,
                                      bev_tracks, timestamp)
                    ELSE AssignMulti(st, cluster, candidates, bev_tracks, timestamp, descending)
         IN  AssignFrom(st1, k + 1, clusters, candidates, bev_tracks, timestamp, descending)

\* BEVClusterMerger.merge: [m, updated_tracks, raised, merges]
MergeCall(m, bev_tracks, timestamp, reid_features, descending) ==
    LET cleaned == CleanupOldTracks(m, timestamp)
        track_candidates == Candidates(bev_tracks, reid_features)
        clusters == ClusterTracks(track_candidates)
    IN  AssignFrom([m |-> cleaned, updated_tracks |-> <<>>, raised |-> FALSE, merges |-> <<>>],
                   1, clusters, track_candidates, bev_tracks, timestamp, descending)

\* ------------------------------------------------------------------------
\* StreamCombinerTrack: constants of the code (times in milliseconds)
\* ------------------------------------------------------------------------

\* ServerConfig.STREAM_CONFIG["max_streams"]
max_streams == 4

TileWidth == 720
TileHeight == 480

\* the init deadline set by __init__, _build_stream_captures and cleanup (30.0 s)
InitTimeoutMs == 30000
\* the init deadline after a successful reconnect (60.0 s)
ReconnectInitTimeoutMs == 60000
\* the sleeps of _reconnect_stream (5, 3 and 30 s)
ReconnectBackoffMs == 5000
ReconnectSettleMs == 3000
ReconnectRetryMs == 30000
\* the retention of a delay buffer (10.0 s; 2.0 s on the delay-0 fallback path)
RetentionMs == 10000
NoDelayRetentionMs == 2000
\* pts = int(relative_timestamp * 90000), per millisecond
PtsPerMs == 90

\* ------------------------------------------------------------------------
\* Bounds of the stream combiner model
\* ------------------------------------------------------------------------

\* recv is called at most MaxRecv times
MaxRecv == 5
\* the sources fail at most MaxFaults times in all: a read that fails or raises,
\* an open that fails or raises, a composition or a detection pass that fails
MaxFaults == 2
\* cleanup is called at most MaxCleanups times
MaxCleanups == 1
\* the manager's stop is called at most MaxStops times
MaxStops == 1
\* at most MaxDelayCalls requests to set a delay
MaxDelayCalls == 1
\* the consumer pauses only while the clock stays within MaxClock
MaxClock == 40000
MaxFpsCalls == 1
\* the transmission loop is started at most MaxLoopTasks times, and at most
\* MaxStopTasks stop_transmission tasks wait to run
MaxLoopTasks == 3
MaxStopTasks == 2

\* the delays the endpoint accepts, and what set_stream_delay keeps beyond
\* the delay, in ms
MaxDelayMs == 5000
DelaySlackMs == 2000

\* the delays a client asks for, and the pause of a consumer
DelayRequests == {-1, 0, 1500, 6000}
IdleSteps == {InitTimeoutMs}

\* the time that passes between two recv calls
RecvSteps == {1000}

\* the streams whose source can fail (fail to open, fail or raise on read),
\* unless a specification says otherwise
Flaky == {0}

\* self._start_time = None
NoTime == -1

\* self.last_frames[stream_id] = None
NoFrame == [stream_id |-> -1, cycle |-> 0]

NoResult == [timestamp |-> NoTime]

\* VisionAPI.vision_fps after __init__
DefaultVisionFps == 10

\* None, where a VisionResult is optional, as a record of VisionResult's shape
NoVisionResult ==
    [kind |-> "none", frame_id |-> 0, timestamp |-> NoTime, bev_tracks |-> <<>>,
     all_stream_tracks |-> <<>>, num_streams |-> 0, active_stream_ids |-> <<>>,
     processing |-> "none"]

\* ------------------------------------------------------------------------
\* StreamCombinerTrack.recv, as operators
\* ------------------------------------------------------------------------

\* CombinedSize without the 2x2 grid: three and four streams on one row
CombinedSizeOneRow(num_streams) ==
    IF num_streams = 1 THEN <<TileWidth, TileHeight>>
    ELSE <<2 * TileWidth, TileHeight>>

\* the canvas size for a number of streams (recv, lines 241-247 and 398-410)
CombinedSize(num_streams) ==
    IF num_streams = 1 THEN <<TileWidth, TileHeight>>
    ELSE IF num_streams = 2 THEN <<2 * TileWidth, TileHeight>>
    ELSE <<2 * TileWidth, 2 * TileHeight>>

\* a layout of one column for every number of streams
GridColsSingle(num_streams) == 1

\* grid_cols for a number of streams
GridCols(num_streams) == IF num_streams = 1 THEN 1 ELSE 2

\* _create_status_frame(720, 480, stream_id, status)
StatusFrame(stream_id, status) == [kind |-> "status", stream_id |-> stream_id, status |-> status]

\* a tile that shows a video frame
VideoTile(frame) == [kind |-> "video", frame |-> frame]

\* cap.isOpened() of capture object c
IsOpened(capobjs, c) == capobjs[c].opened /\ ~capobjs[c].released

\* stream_id in self.stream_caps
HasCap(caps, stream_id) == \E k \in 1..Len(caps) : caps[k].stream_id = stream_id

\* self.stream_caps[stream_id]
CapOf(caps, stream_id) == caps[CHOOSE k \in 1..Len(caps) : caps[k].stream_id = stream_id].cap

\* self.stream_caps[stream_id] = c: an existing key keeps its place in the dict
SetCap(caps, stream_id, c) ==
    IF HasCap(caps, stream_id)
    THEN [k \in 1..Len(caps) |->
            IF caps[k].stream_id = stream_id THEN [stream_id |-> stream_id, cap |-> c]
            ELSE caps[k]]
    ELSE Append(caps, [stream_id |-> stream_id, cap |-> c])

\* the loop "CAPTURE FRESH FRAMES FROM EACH STREAM" from entry k of stream_caps on.
\* rd = [fresh, last_frames, stream_status, reconnects, raised];
\* reads[stream_id] is what cap.read() does: "ok", "fail" or "raise"
RECURSIVE ReadLoop(_, _, _, _, _, _, _)
ReadLoop(k, caps, reads, current_time, cycle, timeouts, rd) ==
    IF k > Len(caps) \/ rd.raised THEN rd
    ELSE LET stream_id == caps[k].stream_id
             frame == [stream_id |-> stream_id, cycle |-> cycle]
             rd1 ==
                CASE reads[stream_id] = "raise" -> [rd EXCEPT !.raised = TRUE]
                  [] reads[stream_id] = "ok" ->
                        [rd EXCEPT !.fresh = Put(@, stream_id, frame),
                                   !.last_frames[stream_id] = frame,
                                   !.stream_status[stream_id] =
                                        IF @ = "initializing" THEN "ready" ELSE @]
                  [] OTHER ->
                        IF current_time > timeouts[stream_id]
                           /\ rd.stream_status[stream_id] = "initializing"
                        THEN [rd EXCEPT !.stream_status[stream_id] = "timeout"]
                        ELSE IF rd.stream_status[stream_id] = "ready"
                             THEN [rd EXCEPT !.stream_status[stream_id] = "error",
                                             !.reconnects = Append(@, stream_id)]
                             ELSE rd
         IN  ReadLoop(k + 1, caps, reads, current_time, cycle, timeouts, rd1)

\* popleft while the oldest entry is older than max_age
RECURSIVE Purge(_, _, _)
Purge(buffer, current_time, max_age) ==
    IF Len(buffer) > 0 /\ current_time - buffer[1].timestamp > max_age
    THEN Purge(Tail(buffer), current_time, max_age)
    ELSE buffer

\* the scan for the buffered frame closest to target_time: the first of the
\* closest entries wins (time_diff < best_time_diff)
AbsDiff(a, b) == IF a >= b THEN a - b ELSE b - a

\* BestFrame without the search: the oldest entry
BestFrameOldest(buffer, target_time) == buffer[1].frame

\* BestFrame without the search: the newest entry
BestFrameNewest(buffer, target_time) == buffer[Len(buffer)].frame

BestFrame(buffer, target_time) ==
    LET best == CHOOSE k \in 1..Len(buffer) :
                    /\ \A j \in 1..Len(buffer) :
                          AbsDiff(buffer[k].timestamp, target_time)
                              <= AbsDiff(buffer[j].timestamp, target_time)
                    /\ \A j \in 1..(k - 1) :
                          AbsDiff(buffer[j].timestamp, target_time)
                              > AbsDiff(buffer[k].timestamp, target_time)
    IN  buffer[best].frame

\* SelectTile with the cached frame of the no-delay fallback put at the left
\* end of the buffer
SelectTileAppendLeft(stream_id, status, delay_ms, fresh, last_frame, buffer, current_time) ==
    IF status \in {"initializing", "timeout", "error"}
    THEN [buffer |-> buffer, tile |-> StatusFrame(stream_id, status)]
    ELSE LET buffer1 ==
                IF stream_id \in DOMAIN fresh
                THEN Purge(Append(buffer, [frame |-> fresh[stream_id], timestamp |-> current_time]),
                           current_time, RetentionMs)
                ELSE buffer
         IN  IF delay_ms = 0
             THEN IF stream_id \in DOMAIN fresh
                  THEN [buffer |-> buffer1, tile |-> VideoTile(fresh[stream_id])]
                  ELSE IF last_frame # NoFrame
                       THEN [buffer |-> Purge(<<[frame |-> last_frame,
                                                 timestamp |-> current_time]>> \o buffer1,
                                              current_time, NoDelayRetentionMs),
                             tile |-> VideoTile(last_frame)]
                       ELSE [buffer |-> buffer1, tile |-> StatusFrame(stream_id, "preparing")]
             ELSE IF Len(buffer1) > 0
                  THEN [buffer |-> buffer1,
                        tile |-> VideoTile(BestFrame(buffer1, current_time - delay_ms))]
                  ELSE IF last_frame # NoFrame
                       THEN [buffer |-> buffer1, tile |-> VideoTile(last_frame)]
                       ELSE [buffer |-> buffer1, tile |-> StatusFrame(stream_id, "preparing")]

\* one pass of the loop "APPLY TIME-SHIFT DELAY" for stream_id: [buffer, tile]
SelectTile(stream_id, status, delay_ms, fresh, last_frame, buffer, current_time) ==
    IF status \in {"initializing", "timeout", "error"}
    THEN [buffer |-> buffer, tile |-> StatusFrame(stream_id, status)]
    ELSE LET buffer1 ==
                IF stream_id \in DOMAIN fresh
                THEN Purge(Append(buffer, [frame |-> fresh[stream_id], timestamp |-> current_time]),
                           current_time, RetentionMs)
                ELSE buffer
         IN  IF delay_ms = 0
             THEN IF stream_id \in DOMAIN fresh
                  THEN [buffer |-> buffer1, tile |-> VideoTile(fresh[stream_id])]
                  ELSE IF last_frame # NoFrame
                       THEN [buffer |-> Purge(Append(buffer1, [frame |-> last_frame,
                                                               timestamp |-> current_time]),
                                              current_time, NoDelayRetentionMs),
                             tile |-> VideoTile(last_frame)]
                       ELSE [buffer |-> buffer1, tile |-> StatusFrame(stream_id, "preparing")]
             ELSE IF Len(buffer1) > 0
                  THEN [buffer |-> buffer1,
                        tile |-> VideoTile(BestFrame(buffer1, current_time - delay_ms))]
                  ELSE IF last_frame # NoFrame
                       THEN [buffer |-> buffer1, tile |-> VideoTile(last_frame)]
                       ELSE [buffer |-> buffer1, tile |-> StatusFrame(stream_id, "preparing")]

\* the tile drawn at grid cell (col, row) of the canvas: those of the streams
\* whose cell lies inside the canvas (lines 420-432)
PlacedTiles(active, tiles) ==
    LET size == CombinedSize(Len(active))
        cols == GridCols(Len(active))
        inside(i) == /\ ((i - 1) \div cols) * TileHeight + TileHeight <= size[2]
                     /\ ((i - 1) % cols) * TileWidth + TileWidth <= size[1]
    IN  [i \in {j \in 1..Len(active) : inside(j)} |->
            [col |-> (i - 1) % cols, row |-> (i - 1) \div cols,
             stream_id |-> active[i], tile |-> tiles[active[i]]]]

\* the loop "APPLY TIME-SHIFT DELAY" over active_stream_ids from index i on:
\* sel = [frame_buffers, output_frames]
RECURSIVE SelectLoop(_, _, _, _, _, _, _, _)
SelectLoop(i, active, statuses, delays, fresh, lasts, current_time, sel) ==
    IF i > Len(active) THEN sel
    ELSE LET stream_id == active[i]
             one == SelectTile(stream_id, statuses[stream_id], delays[stream_id], fresh,
                               lasts[stream_id], sel.frame_buffers[stream_id], current_time)
         IN  SelectLoop(i + 1, active, statuses, delays, fresh, lasts, current_time,
                        [frame_buffers |-> [sel.frame_buffers EXCEPT ![stream_id] = one.buffer],
                         output_frames |-> Put(sel.output_frames, stream_id, one.tile)])

\* the size of the black frame recv computes first (lines 241-247): two
\* streams are assumed when there is none
EarlySize(active) == CombinedSize(IF Len(active) > 0 THEN Len(active) ELSE 2)

\* the frame recv returns: its size, its pts, the tiles drawn on it and the
\* path that produced it ("black", "composed" or "error")
AvFrame(size, relative_timestamp, placed, path) ==
    [width |-> size[1], height |-> size[2], pts |-> relative_timestamp * PtsPerMs,
     tiles |-> placed, path |-> path]

\* ------------------------------------------------------------------------
\* State
\* ------------------------------------------------------------------------

VARIABLES
    \* StreamCombinerTrack
    active_stream_ids,          \* the ids of the enabled streams, in order
    stream_caps,                \* the dict stream id -> capture, in insertion order
    capobjs,                    \* the cv2.VideoCapture objects created so far
    is_running,
    start_time,                 \* _start_time
    vision_processing,
    stream_delays,
    frame_buffers,
    last_frames,
    stream_status,
    stream_init_timeout,
    latest_vision_result,
    \* the module's vision_api: whether one is registered, and its is_enabled
    vision_api,
    tracking_enabled,
    \* the event loop: the tasks created and not yet finished
    ready,                      \* those ready to run, in the order of their creation
    sleeping,                   \* the _reconnect_stream tasks in asyncio.sleep
    \* the environment and what is observed
    clock,                      \* time.time(), in ms
    recv_count,                 \* the calls of recv so far
    recv_result,                \* the frame the last recv returned
    recv_cycle,                 \* what its reads did, and whether composing raised
    cleanups,                   \* the calls of cleanup so far
    faults,                     \* the failures of the sources so far
    late_writes,                \* writes by tasks created before a cleanup, after it
    flaky,                      \* the streams whose source can fail
    \* StreamCombinerManager
    manager_track,              \* whether self.track is the track (it is None otherwise)
    manager_is_running,         \* self.is_running of the manager
    stops,                      \* the calls of stop() that returned so far
    \* the delay endpoint
    delay_calls,                \* the requests to set a delay so far
    set_delay_call,             \* the last of them, and how it was answered
    \* BEVClusterMerger
    global_tracks,              \* global id -> GlobalTrack
    next_global_id,
    track_id_mapping,           \* (camera id, local track id) -> global id
    total_tracks_created,
    multi_camera_associations,
    \* the last merge() call
    now,                        \* its timestamp
    bev_tracks,                 \* its batch
    reid_features,              \* its features
    merge_result,               \* the list it returned (<<>> if it raised)
    merge_raised,               \* whether it raised
    merge_log,                  \* its calls of _merge_global_tracks
    expired_log,                \* the global ids removed by expiry so far
    \* VisionAPI
    frame_counter,
    vision_frame_counter,
    last_vision_time,           \* in ms
    vision_frame_interval,      \* in ms
    cached_vision_result,
    \* the last call of process_combined_frame
    vision_return,              \* what it returned
    vision_extract,             \* the stream_frames it cut out of the combined frame
    tracker_calls,              \* the passes that called the tracker so far
    fps_calls,                  \* the calls of set_vision_fps so far
    vision_clock                \* time.time() as process_combined_frame read it last

mergerVars ==
    <<global_tracks, next_global_id, track_id_mapping, total_tracks_created,
      multi_camera_associations, now, bev_tracks, reid_features, merge_result,
      merge_raised, merge_log, expired_log>>

combinerVars ==
    <<active_stream_ids, stream_caps, capobjs, is_running, start_time, vision_processing,
      stream_delays, frame_buffers, last_frames, stream_status, stream_init_timeout,
      latest_vision_result, vision_api, tracking_enabled, ready, sleeping,
      clock, recv_count, recv_result, recv_cycle, cleanups, faults, late_writes>>

engineVars ==
    <<flaky, manager_track, manager_is_running, stops, delay_calls, set_delay_call>>

visionVars ==
    <<frame_counter, vision_frame_counter, last_vision_time, vision_frame_interval,
      cached_vision_result, vision_return, vision_extract, tracker_calls, fps_calls,
      vision_clock>>

\* VisionWebSocketManager and the tasks of its event loop
VARIABLES
    active_connections,         \* the connected websockets
    transmission_task,          \* the loop task it holds (0 is None)
    ws_is_running,              \* its is_running flag
    loop_tasks,                 \* the _transmission_loop tasks created so far
    accepting,                  \* the websockets whose connect awaits accept()
    stop_tasks                  \* the stop_transmission tasks created and not run

socketVars ==
    <<active_connections, transmission_task, ws_is_running, loop_tasks, accepting, stop_tasks>>

vars == <<mergerVars, combinerVars, engineVars, visionVars, socketVars>>

MergerState ==
    [global_tracks |-> global_tracks,
     next_global_id |-> next_global_id,
     track_id_mapping |-> track_id_mapping,
     total_tracks_created |-> total_tracks_created,
     multi_camera_associations |-> multi_camera_associations]

\* a merger m, before its first cycle
MergerConstructed(m) ==
    /\ global_tracks = m.global_tracks
    /\ next_global_id = m.next_global_id
    /\ track_id_mapping = m.track_id_mapping
    /\ total_tracks_created = m.total_tracks_created
    /\ multi_camera_associations = m.multi_camera_associations
    /\ now = 0
    /\ bev_tracks = <<>>
    /\ reid_features = EmptyDict
    /\ merge_result = <<>>
    /\ merge_raised = FALSE
    /\ merge_log = <<>>
    /\ expired_log = {}

\* merge(batch, now + dt, None, features)
MergeStep(batch, features, dt, descending) ==
        /\ \E r \in {MergeCall(MergerState, batch, now + dt, features, descending)} :
               /\ global_tracks' = r.m.global_tracks
               /\ next_global_id' = r.m.next_global_id
               /\ track_id_mapping' = r.m.track_id_mapping
               /\ total_tracks_created' = r.m.total_tracks_created
               /\ multi_camera_associations' = r.m.multi_camera_associations
               /\ merge_result' = IF r.raised THEN <<>> ELSE r.updated_tracks
               /\ merge_raised' = r.raised
               /\ merge_log' = r.merges
        /\ expired_log' = expired_log \cup ExpiredIds(MergerState, now + dt)
        /\ now' = now + dt
        /\ bev_tracks' = batch
        /\ reid_features' = features
        /\ UNCHANGED <<combinerVars, engineVars, visionVars, socketVars>>

\* one fusion cycle
Merge ==
    \E batch \in Batches, features \in ReidFeatureSets, dt \in TimeSteps, descending \in BOOLEAN :
        /\ now + dt <= MaxTime
        /\ MergeStep(batch, features, dt, descending)

\* one fusion cycle whose batch holds a track without camera id
MergeMalformed ==
    \E batch \in MalformedBatches, features \in ReidFeatureSets, dt \in TimeSteps,
       descending \in BOOLEAN :
        /\ now + dt <= MaxTime
        /\ MergeStep(batch, features, dt, descending)

\* ------------------------------------------------------------------------
\* StreamCombinerTrack: construction
\* ------------------------------------------------------------------------

\* a cycle without reads: no recv yet, or the black frame
NoCycle == [reads |-> EmptyDict, fault |-> "none"]

NoFrameYet == [width |-> 0, height |-> 0, pts |-> 0, tiles |-> <<>>, path |-> "none"]

\* StreamCombinerTrack.__init__ for the enabled streams `active`
CombinerConstructed(active, api) ==
    /\ active_stream_ids = active
    /\ stream_caps = <<>>
    /\ capobjs = <<>>
    /\ is_running = FALSE
    /\ start_time = NoTime
    /\ vision_processing = FALSE
    /\ stream_delays = [s \in Range(active) |-> 0]
    /\ frame_buffers = [s \in Range(active) |-> <<>>]
    /\ last_frames = [s \in Range(active) |-> NoFrame]
    /\ stream_status = [s \in Range(active) |-> "initializing"]
    /\ stream_init_timeout = [s \in Range(active) |-> InitTimeoutMs]
    /\ latest_vision_result = NoResult
    /\ vision_api = api
    /\ tracking_enabled = FALSE
    /\ ready = <<>>
    /\ sleeping = <<>>
    /\ clock = 0
    /\ recv_count = 0
    /\ recv_result = NoFrameYet
    /\ recv_cycle = NoCycle
    /\ cleanups = 0
    /\ faults = 0
    /\ late_writes = {}

\* no request to set a delay yet
NoCall == [stream_id |-> -1, delay_ms |-> 0, via |-> "none", status |-> 0]

\* the module's stream_combiner_manager once get_video_track() has created
\* the track, with the stream sources `unreliable` able to fail
ManagerConstructed(unreliable) ==
    /\ flaky = unreliable
    /\ manager_track = TRUE
    /\ manager_is_running = FALSE
    /\ stops = 0
    /\ delay_calls = 0
    /\ set_delay_call = NoCall

\* VisionAPI.__init__, with vision_fps = fps
VisionAPIConstructed(fps) ==
    /\ frame_counter = 0
    /\ vision_frame_counter = 0
    /\ last_vision_time = 0
    /\ vision_frame_interval = 1000 \div fps
    /\ cached_vision_result = NoVisionResult
    /\ vision_return = NoVisionResult
    /\ vision_extract = EmptyDict
    /\ tracker_calls = 0
    /\ fps_calls = 0
    /\ vision_clock = 0

\* VisionWebSocketManager.__init__, on an event loop that holds the tasks of
\* the websockets `pending`
VisionWebSocketManagerConstructed(pending) ==
    /\ active_connections = {}
    /\ transmission_task = 0
    /\ ws_is_running = FALSE
    /\ loop_tasks = <<>>
    /\ accepting = pending
    /\ stop_tasks = 0

\* ServerConfig.get_enabled_streams(): the first n of the stream sources 0..3
EnabledStreams(n) == [i \in 1..n |-> i - 1]

\* the application as constructed: a new merger, and a combiner for the
\* first n stream sources, with or without a registered vision API
Init ==
    \E n \in 0..max_streams, api \in BOOLEAN :
        /\ MergerConstructed(NewMerger)
        /\ CombinerConstructed(EnabledStreams(n), api)
        /\ ManagerConstructed(Flaky)
        /\ VisionAPIConstructed(DefaultVisionFps)
        /\ VisionWebSocketManagerConstructed({})

\* the default configuration: NUM_STREAMS = 2, no vision API registered yet
DefaultInit ==
    /\ MergerConstructed(NewMerger)
    /\ CombinerConstructed(EnabledStreams(2), FALSE)
    /\ ManagerConstructed(Flaky)
    /\ VisionAPIConstructed(DefaultVisionFps)
    /\ VisionWebSocketManagerConstructed({})

\* ------------------------------------------------------------------------
\* The event loop's tasks
\* ------------------------------------------------------------------------

\* removes entry i of a task list
RemoveAt(tasks, i) == SubSeq(tasks, 1, i - 1) \o SubSeq(tasks, i + 1, Len(tasks))

\* asyncio.create_task(coro): kind is the coroutine ("initialize", "vision" or
\* "reconnect"), born the number of cleanups before its creation
Task(kind, stream_id, frame, timestamp) ==
    [kind |-> kind, stream_id |-> stream_id, frame |-> frame, timestamp |-> timestamp,
     pc |-> "start", wake |-> 0, born |-> cleanups]

InitializeTask == Task("initialize", -1, <<>>, 0)
BackgroundStartTask == Task("background_start", -1, <<>>, 0)
VisionTask(frame, timestamp) == Task("vision", -1, frame, timestamp)
ReconnectTask(stream_id) == Task("reconnect", stream_id, <<>>, 0)

\* the tasks of a kind that are created and not finished
Outstanding(kind) ==
    Len(SelectSeq(ready, LAMBDA t : t.kind = kind))
        + Len(SelectSeq(sleeping, LAMBDA t : t.kind = kind))

\* the _reconnect_stream tasks of a stream that are created and not finished
ReconnectsOf(stream_id) ==
    Len(SelectSeq(ready, LAMBDA t : t.kind = "reconnect" /\ t.stream_id = stream_id))
        + Len(SelectSeq(sleeping, LAMBDA t : t.stream_id = stream_id))

\* what a task created before the last cleanup writes after it
Late(task, written) ==
    IF task.born < cleanups
    THEN late_writes \cup {[task |-> task.kind, wrote |-> v] : v \in written}
    ELSE late_writes

\* ------------------------------------------------------------------------
\* StreamCombinerTrack: recv
\* ------------------------------------------------------------------------

\* what cap.read() of a stream's capture can do
ReadChoices(stream_id) ==
    IF ~IsOpened(capobjs, CapOf(stream_caps, stream_id)) THEN {"fail"}
    ELSE IF stream_id \in flaky THEN {"ok", "fail", "raise"}
    ELSE {"ok"}

CapStreams == {stream_caps[k].stream_id : k \in 1..Len(stream_caps)}

ReadOutcomes ==
    {reads \in [CapStreams -> {"ok", "fail", "raise"}] :
        \A stream_id \in CapStreams : reads[stream_id] \in ReadChoices(stream_id)}

\* the reads of open captures that do not deliver a frame
FailedReads(reads) ==
    Cardinality({stream_id \in CapStreams :
                    /\ reads[stream_id] # "ok"
                    /\ IsOpened(capobjs, CapOf(stream_caps, stream_id))})

\* the reads of a cycle as performed: the loop ends at the first read that
\* raises, the reads after it are skipped
Performed(reads) ==
    [stream_id \in CapStreams |->
        IF \E k \in 1..Len(stream_caps) :
              /\ reads[stream_caps[k].stream_id] = "raise"
              /\ \E j \in (k + 1)..Len(stream_caps) : stream_caps[j].stream_id = stream_id
        THEN "skipped" ELSE reads[stream_id]]

\* the tasks recv creates: the on-demand initialisation when there is no
\* capture, the reconnects of the streams that stopped, the detection pass
RecvTasks(reconnects, passes) ==
    (IF stream_caps = <<>> THEN <<InitializeTask>> ELSE <<>>)
        \o [k \in 1..Len(reconnects) |-> ReconnectTask(reconnects[k])]
        \o passes

\* the first lines of recv with _start_time set anew whenever there is no
\* capture
RecvEntryReanchored(dt) ==
    /\ recv_count < MaxRecv
    /\ recv_count' = recv_count + 1
    /\ clock' = clock + dt
    /\ start_time' = IF start_time = NoTime \/ stream_caps = <<>> THEN clock + dt ELSE start_time

\* the first lines of recv: the clock and _start_time
RecvEntry(dt) ==
    /\ recv_count < MaxRecv
    /\ recv_count' = recv_count + 1
    /\ clock' = clock + dt
    /\ start_time' = IF start_time = NoTime THEN clock + dt ELSE start_time

\* recv while there is no capture or none is open: the black frame
RecvBlack ==
    \E dt \in RecvSteps :
        /\ RecvEntry(dt)
        /\ \/ stream_caps = <<>>
           \/ ~\E k \in 1..Len(stream_caps) : IsOpened(capobjs, stream_caps[k].cap)
        /\ ready' = ready \o RecvTasks(<<>>, <<>>)
        /\ recv_result' = AvFrame(EarlySize(active_stream_ids), clock' - start_time', <<>>, "black")
        /\ recv_cycle' = NoCycle
        /\ UNCHANGED <<active_stream_ids, stream_caps, capobjs, is_running, vision_processing,
                       stream_delays, frame_buffers, last_frames, stream_status,
                       stream_init_timeout, latest_vision_result, vision_api, tracking_enabled,
                       sleeping, cleanups, faults, late_writes>>
        /\ UNCHANGED <<mergerVars, engineVars, visionVars, socketVars>>

\* the dispatch of a detection pass whether or not tracking is enabled
DispatchesAlways(api, enabled, processing) == api /\ ~processing

\* whether recv dispatches a detection pass: a vision API is registered,
\* tracking is enabled and no pass is running
Dispatches(api, enabled, processing) == api /\ enabled /\ ~processing

\* recv with an open capture: the try block.  fault = "compose" is an
\* exception raised while the canvas is composed and converted
RecvCompose ==
    \E dt \in RecvSteps, reads \in ReadOutcomes, fault \in {"none", "compose"} :
        /\ RecvEntry(dt)
        /\ stream_caps # <<>>
        /\ \E k \in 1..Len(stream_caps) : IsOpened(capobjs, stream_caps[k].cap)
        /\ faults' = faults + FailedReads(reads) + (IF fault = "compose" THEN 1 ELSE 0)
        /\ recv_cycle' = [reads |-> Performed(reads), fault |-> fault]
        /\ faults' <= MaxFaults
        /\ \E rd \in {ReadLoop(1, stream_caps, reads, clock + dt, recv_count + 1,
                               stream_init_timeout,
                               [fresh |-> EmptyDict, last_frames |-> last_frames,
                                stream_status |-> stream_status, reconnects |-> <<>>,
                                raised |-> FALSE])} :
            /\ last_frames' = rd.last_frames
            /\ stream_status' = rd.stream_status
            /\ IF rd.raised
               THEN /\ fault = "none"
                    /\ recv_result' = AvFrame(EarlySize(active_stream_ids),
                                              clock' - start_time', <<>>, "error")
                    /\ ready' = ready \o RecvTasks(rd.reconnects, <<>>)
                    /\ UNCHANGED frame_buffers
               ELSE \E sel \in {SelectLoop(1, active_stream_ids, rd.stream_status, stream_delays,
                                           rd.fresh, rd.last_frames, clock + dt,
                                           [frame_buffers |-> frame_buffers,
                                            output_frames |-> EmptyDict])} :
                    /\ frame_buffers' = sel.frame_buffers
                    /\ IF fault = "compose"
                       THEN /\ recv_result' = AvFrame(CombinedSize(Len(active_stream_ids)),
                                                      clock' - start_time', <<>>, "error")
                            /\ ready' = ready \o RecvTasks(rd.reconnects, <<>>)
                       ELSE \E placed \in {PlacedTiles(active_stream_ids, sel.output_frames)} :
                            /\ ready' = ready \o RecvTasks(rd.reconnects,
                                  IF Dispatches(vision_api, tracking_enabled, vision_processing)
                                  THEN <<VisionTask(placed, clock + dt)>> ELSE <<>>)
                            /\ recv_result' = AvFrame(CombinedSize(Len(active_stream_ids)),
                                                      clock' - start_time', placed, "composed")
        /\ UNCHANGED <<active_stream_ids, stream_caps, capobjs, is_running, vision_processing,
                       stream_delays, stream_init_timeout, latest_vision_result, vision_api,
                       tracking_enabled, sleeping, cleanups, late_writes>>
        /\ UNCHANGED <<mergerVars, engineVars, visionVars, socketVars>>

Recv == RecvBlack \/ RecvCompose

\* ------------------------------------------------------------------------
\* StreamCombinerTrack: the background tasks.  The event loop runs the ready
\* tasks in the order of their creation; a task runs up to its next await.
\* ------------------------------------------------------------------------

\* what opening a stream's source can do: the capture opens, it is created
\* but not opened, or creating it raises
OpenChoices(stream_id) == IF stream_id \in flaky THEN {"open", "closed", "raise"} ELSE {"open"}

\* _build_stream_captures from stream number i on: b = [stream_caps, capobjs,
\* stream_status, stream_init_timeout]
RECURSIVE BuildLoop(_, _, _, _)
BuildLoop(i, opens, time, b) ==
    IF i > Len(active_stream_ids) THEN b
    ELSE LET stream_id == active_stream_ids[i]
             b1 == IF opens[stream_id] = "raise"
                   THEN [b EXCEPT !.stream_status[stream_id] = "error"]
                   ELSE [b EXCEPT
                           !.capobjs = Append(@, [opened |-> opens[stream_id] = "open",
                                                  released |-> FALSE,
                                                  stream_id |-> stream_id]),
                           !.stream_caps = SetCap(@, stream_id, Len(b.capobjs) + 1),
                           !.stream_status[stream_id] = "initializing",
                           !.stream_init_timeout[stream_id] = time + InitTimeoutMs]
         IN  BuildLoop(i + 1, opens, time, b1)

\* _initialize_capture without its first two lines: the captures are built
\* whether or not there are some
InitializeCaptureAlways(task) ==
    /\ IF FALSE
       THEN UNCHANGED <<stream_caps, capobjs, stream_status, stream_init_timeout,
                        is_running, late_writes, faults>>
       ELSE \E opens \in {o \in [Range(active_stream_ids) -> {"open", "closed", "raise"}] :
                            \A stream_id \in Range(active_stream_ids) :
                                o[stream_id] \in OpenChoices(stream_id)} :
            \E b \in {BuildLoop(1, opens, clock,
                                [stream_caps |-> stream_caps, capobjs |-> capobjs,
                                 stream_status |-> stream_status,
                                 stream_init_timeout |-> stream_init_timeout])} :
                /\ stream_caps' = b.stream_caps
                /\ capobjs' = b.capobjs
                /\ stream_status' = b.stream_status
                /\ stream_init_timeout' = b.stream_init_timeout
                /\ is_running' = TRUE
                /\ faults' = faults + Cardinality({stream_id \in Range(active_stream_ids) :
                                                    opens[stream_id] # "open"})
                /\ faults' <= MaxFaults
                /\ late_writes' = Late(task,
                                       {"stream_caps", "stream_status", "stream_init_timeout"})
    /\ UNCHANGED <<active_stream_ids, start_time, vision_processing, stream_delays,
                   frame_buffers, last_frames, latest_vision_result, vision_api,
                   tracking_enabled, sleeping, clock, recv_count, recv_result, recv_cycle, cleanups>>

\* _initialize_capture, run by `task`: it has no await
InitializeCaptureBody(task) ==
    /\ IF stream_caps # <<>>
       THEN UNCHANGED <<stream_caps, capobjs, stream_status, stream_init_timeout,
                        is_running, late_writes, faults>>
       ELSE \E opens \in {o \in [Range(active_stream_ids) -> {"open", "closed", "raise"}] :
                            \A stream_id \in Range(active_stream_ids) :
                                o[stream_id] \in OpenChoices(stream_id)} :
            \E b \in {BuildLoop(1, opens, clock,
                                [stream_caps |-> stream_caps, capobjs |-> capobjs,
                                 stream_status |-> stream_status,
                                 stream_init_timeout |-> stream_init_timeout])} :
                /\ stream_caps' = b.stream_caps
                /\ capobjs' = b.capobjs
                /\ stream_status' = b.stream_status
                /\ stream_init_timeout' = b.stream_init_timeout
                /\ is_running' = TRUE
                /\ faults' = faults + Cardinality({stream_id \in Range(active_stream_ids) :
                                                    opens[stream_id] # "open"})
                /\ faults' <= MaxFaults
                /\ late_writes' = Late(task,
                                       {"stream_caps", "stream_status", "stream_init_timeout"})
    /\ UNCHANGED <<active_stream_ids, start_time, vision_processing, stream_delays,
                   frame_buffers, last_frames, latest_vision_result, vision_api,
                   tracking_enabled, sleeping, clock, recv_count, recv_result, recv_cycle, cleanups>>

\* a run of an _initialize_capture task
InitializeCapture ==
    /\ Len(ready) > 0
    /\ Head(ready).kind = "initialize"
    /\ ready' = Tail(ready)
    /\ InitializeCaptureBody(Head(ready))
    /\ UNCHANGED <<mergerVars, engineVars, visionVars, socketVars>>

\* what vision_api.process_combined_frame can do for a pass: None while
\* tracking is disabled, else a VisionResult, None, or an exception
PassChoices == IF tracking_enabled THEN {"result", "none", "raise"} ELSE {"none"}

\* a pass without the finally clause: the flag stays set when the pass raises
ProcessingAfterPassNoFinally(outcome) == outcome = "raise"

\* finally: self.vision_processing = False, whatever the pass did
ProcessingAfterPass(outcome) == FALSE

\* a run of a _process_frame_vision task: it has no await, so it runs from
\* its first line to its finally in one step
ProcessFrameVision ==
    \E outcome \in PassChoices :
        /\ Len(ready) > 0
        /\ Head(ready).kind = "vision"
        /\ ready' = Tail(ready)
        /\ faults' = faults + (IF tracking_enabled /\ outcome # "result" THEN 1 ELSE 0)
        /\ faults' <= MaxFaults
        /\ IF vision_processing
           THEN UNCHANGED <<vision_processing, latest_vision_result, late_writes>>
           ELSE /\ vision_processing' = ProcessingAfterPass(outcome)
                /\ IF vision_api /\ outcome = "result"
                   THEN /\ latest_vision_result' = [timestamp |-> Head(ready).timestamp]
                        /\ late_writes' = Late(Head(ready), {"latest_vision_result"})
                   ELSE UNCHANGED <<latest_vision_result, late_writes>>
        /\ UNCHANGED <<active_stream_ids, stream_caps, capobjs, is_running, start_time,
                       stream_delays, frame_buffers, last_frames, stream_status,
                       stream_init_timeout, vision_api, tracking_enabled, sleeping, clock,
                       recv_count, recv_result, recv_cycle, cleanups>>
        /\ UNCHANGED <<mergerVars, engineVars, visionVars, socketVars>>

\* the time at which a sleeping task goes on: not before its wake time
Woken(task) == IF clock >= task.wake THEN clock ELSE task.wake

\* _reconnect_stream up to its first await (asyncio.sleep(5))
ReconnectStart ==
    /\ Len(ready) > 0
    /\ Head(ready).kind = "reconnect"
    /\ ready' = Tail(ready)
    /\ stream_status' = [stream_status EXCEPT ![Head(ready).stream_id] = "reconnecting"]
    /\ sleeping' = Append(sleeping, [Head(ready) EXCEPT !.pc = "backoff",
                                                        !.wake = clock + ReconnectBackoffMs])
    /\ late_writes' = Late(Head(ready), {"stream_status"})
    /\ UNCHANGED <<active_stream_ids, stream_caps, capobjs, is_running, start_time,
                   vision_processing, stream_delays, frame_buffers, last_frames,
                   stream_init_timeout, latest_vision_result, vision_api, tracking_enabled,
                   clock, recv_count, recv_result, recv_cycle, cleanups, faults>>
    /\ UNCHANGED <<mergerVars, engineVars, visionVars, socketVars>>

\* _reconnect_stream from the end of sleep(5) to sleep(3): the old capture is
\* released and a new one created
ReconnectReopen ==
    \E i \in 1..Len(sleeping) :
        LET task == sleeping[i]
            stream_id == task.stream_id
            released == IF HasCap(stream_caps, stream_id)
                        THEN [capobjs EXCEPT ![CapOf(stream_caps, stream_id)].released = TRUE]
                        ELSE capobjs
        IN
        /\ task.pc = "backoff"
        /\ clock' = Woken(task)
        /\ \E outcome \in OpenChoices(stream_id) :
            /\ faults' = faults + (IF outcome # "open" THEN 1 ELSE 0)
            /\ faults' <= MaxFaults
            /\ IF outcome = "raise"
               THEN /\ capobjs' = released
                    /\ stream_status' = [stream_status EXCEPT ![stream_id] = "error"]
                    /\ sleeping' = RemoveAt(sleeping, i)
                    /\ late_writes' = Late(task, {"stream_status"})
                    /\ UNCHANGED stream_caps
               ELSE /\ capobjs' = Append(released, [opened |-> outcome = "open",
                                                    released |-> FALSE,
                                                    stream_id |-> stream_id])
                    /\ stream_caps' = SetCap(stream_caps, stream_id, Len(capobjs) + 1)
                    /\ sleeping' = [sleeping EXCEPT
                                      ![i] = [task EXCEPT !.pc = "settle",
                                                          !.wake = clock' + ReconnectSettleMs]]
                    /\ late_writes' = Late(task, {"stream_caps"})
                    /\ UNCHANGED stream_status
        /\ UNCHANGED <<active_stream_ids, is_running, start_time, vision_processing,
                       stream_delays, frame_buffers, last_frames, stream_init_timeout,
                       latest_vision_result, vision_api, tracking_enabled, ready,
                       recv_count, recv_result, recv_cycle, cleanups>>
        /\ UNCHANGED <<mergerVars, engineVars, visionVars, socketVars>>

\* _reconnect_stream from the end of sleep(3): the check of the new capture
ReconnectCheck ==
    \E i \in 1..Len(sleeping) :
        LET task == sleeping[i]
            stream_id == task.stream_id
        IN
        /\ task.pc = "settle"
        /\ clock' = Woken(task)
        /\ IF ~HasCap(stream_caps, stream_id)
           THEN \* self.stream_caps[stream_id] raises KeyError: the inner except
                /\ stream_status' = [stream_status EXCEPT ![stream_id] = "error"]
                /\ sleeping' = RemoveAt(sleeping, i)
                /\ late_writes' = Late(task, {"stream_status"})
                /\ UNCHANGED stream_init_timeout
           ELSE IF IsOpened(capobjs, CapOf(stream_caps, stream_id))
                THEN /\ stream_status' = [stream_status EXCEPT ![stream_id] = "initializing"]
                     /\ stream_init_timeout' =
                            [stream_init_timeout EXCEPT ![stream_id] = clock' + ReconnectInitTimeoutMs]
                     /\ sleeping' = RemoveAt(sleeping, i)
                     /\ late_writes' = Late(task, {"stream_status", "stream_init_timeout"})
                ELSE /\ stream_status' = [stream_status EXCEPT ![stream_id] = "error"]
                     /\ sleeping' = [sleeping EXCEPT
                                       ![i] = [task EXCEPT !.pc = "retry",
                                                           !.wake = clock' + ReconnectRetryMs]]
                     /\ late_writes' = Late(task, {"stream_status"})
                     /\ UNCHANGED stream_init_timeout
        /\ UNCHANGED <<active_stream_ids, stream_caps, capobjs, is_running, start_time,
                       vision_processing, stream_delays, frame_buffers, last_frames,
                       latest_vision_result, vision_api, tracking_enabled, ready,
                       recv_count, recv_result, recv_cycle, cleanups, faults>>
        /\ UNCHANGED <<mergerVars, engineVars, visionVars, socketVars>>

\* _reconnect_stream from the end of sleep(30): the task ends, and starts
\* its successor if the stream is still in error
ReconnectRetry ==
    \E i \in 1..Len(sleeping) :
        LET task == sleeping[i] IN
        /\ task.pc = "retry"
        /\ clock' = Woken(task)
        /\ sleeping' = RemoveAt(sleeping, i)
        /\ ready' = IF stream_status[task.stream_id] = "error"
                    THEN Append(ready, ReconnectTask(task.stream_id))
                    ELSE ready
        /\ UNCHANGED <<active_stream_ids, stream_caps, capobjs, is_running, start_time,
                       vision_processing, stream_delays, frame_buffers, last_frames,
                       stream_status, stream_init_timeout, latest_vision_result, vision_api,
                       tracking_enabled, recv_count, recv_result, recv_cycle, cleanups, faults,
                       late_writes>>
        /\ UNCHANGED <<mergerVars, engineVars, visionVars, socketVars>>

\* ------------------------------------------------------------------------
\* StreamCombinerTrack.cleanup and the vision switches
\* ------------------------------------------------------------------------

\* StreamCombinerTrack.cleanup
CleanupBody ==
    /\ cleanups' = cleanups + 1
    /\ IF stream_caps # <<>>
       THEN /\ capobjs' = [c \in 1..Len(capobjs) |->
                             IF \E k \in 1..Len(stream_caps) : stream_caps[k].cap = c
                             THEN [capobjs[c] EXCEPT !.released = TRUE] ELSE capobjs[c]]
            /\ stream_caps' = <<>>
            /\ is_running' = FALSE
       ELSE UNCHANGED <<capobjs, stream_caps, is_running>>
    /\ stream_delays' = [s \in Range(active_stream_ids) |-> 0]
    /\ frame_buffers' = [s \in DOMAIN frame_buffers |-> <<>>]
    /\ last_frames' = [s \in Range(active_stream_ids) |-> NoFrame]
    /\ stream_status' = [s \in Range(active_stream_ids) |-> "initializing"]
    /\ stream_init_timeout' = [s \in Range(active_stream_ids) |-> clock + InitTimeoutMs]
    /\ UNCHANGED <<active_stream_ids, start_time, vision_processing, latest_vision_result,
                   vision_api, tracking_enabled, sleeping, clock, recv_count,
                   recv_result, recv_cycle, faults, late_writes>>

\* a call of cleanup() on the track
Cleanup ==
    /\ cleanups < MaxCleanups
    /\ CleanupBody
    /\ UNCHANGED ready
    /\ UNCHANGED <<mergerVars, engineVars, visionVars, socketVars>>

\* ------------------------------------------------------------------------
\* StreamCombinerManager: start and stop
\* ------------------------------------------------------------------------

\* start(): nothing to do while the manager is running, else the background
\* start is scheduled.  A manager without a track would create a second
\* track object here: that case is left out, the guard keeps the one track.
\* One background start is outstanding at a time, to keep the task list finite
ManagerStart ==
    /\ manager_track
    /\ ~manager_is_running
    /\ Outstanding("background_start") = 0
    /\ ready' = Append(ready, BackgroundStartTask)
    /\ UNCHANGED <<active_stream_ids, stream_caps, capobjs, is_running, start_time,
                   vision_processing, stream_delays, frame_buffers, last_frames, stream_status,
                   stream_init_timeout, latest_vision_result, vision_api, tracking_enabled,
                   sleeping, clock, recv_count, recv_result, recv_cycle, cleanups, faults, late_writes>>
    /\ UNCHANGED <<mergerVars, engineVars, visionVars, socketVars>>

\* a run of a _background_start task: the captures are built unless there
\* are some, and the manager runs if the track does
BackgroundStart ==
    /\ Len(ready) > 0
    /\ Head(ready).kind = "background_start"
    /\ ready' = Tail(ready)
    /\ IF manager_track
       THEN /\ InitializeCaptureBody(Head(ready))
            /\ manager_is_running' = (manager_is_running \/ is_running')
       ELSE UNCHANGED <<combinerVars, manager_is_running>>
    /\ UNCHANGED <<flaky, manager_track, stops, delay_calls, set_delay_call>>
    /\ UNCHANGED <<mergerVars, visionVars, socketVars>>

\* stop(): it returns at once unless the manager is running
ManagerStop ==
    /\ stops < MaxStops
    /\ stops' = stops + 1
    /\ IF ~manager_is_running
       THEN UNCHANGED <<combinerVars, manager_track, manager_is_running>>
       ELSE /\ IF manager_track
               THEN CleanupBody /\ UNCHANGED ready
               ELSE UNCHANGED combinerVars
            /\ manager_track' = FALSE
            /\ manager_is_running' = FALSE
    /\ UNCHANGED <<flaky, delay_calls, set_delay_call>>
    /\ UNCHANGED <<mergerVars, visionVars, socketVars>>

\* ------------------------------------------------------------------------
\* Setting a delay: PUT /stream-delays/{stream_id} (via = "api"), or a call
\* of StreamCombinerManager.set_stream_delay (via = "manager")
\* ------------------------------------------------------------------------

\* set_stream_delay's purge that empties the buffer
DelayPurgeClear(buffer, current_time, delay_ms) == <<>>

\* set_stream_delay's purge: for a delay above 0, the entries older than the
\* delay plus 2 s go
DelayPurge(buffer, current_time, delay_ms) ==
    IF delay_ms > 0 THEN Purge(buffer, current_time, delay_ms + DelaySlackMs) ELSE buffer

\* how a request is answered: 400 when the endpoint refuses it, 500 when the
\* manager or the track returns False, 200 when the delay is stored
DelayStatus(stream_id, delay_ms, via) ==
    IF via = "api" /\ stream_id \notin Range(active_stream_ids) THEN 400
    ELSE IF via = "api" /\ (delay_ms < 0 \/ delay_ms > MaxDelayMs) THEN 400
    ELSE IF ~manager_track THEN 500
    ELSE IF stream_id \notin Range(active_stream_ids) THEN 500
    ELSE 200

SetStreamDelay ==
    \E stream_id \in Range(active_stream_ids) \cup {max_streams},
       delay_ms \in DelayRequests, via \in {"api", "manager"} :
        /\ delay_calls < MaxDelayCalls
        /\ delay_calls' = delay_calls + 1
        /\ set_delay_call' = [stream_id |-> stream_id, delay_ms |-> delay_ms, via |-> via,
                              status |-> DelayStatus(stream_id, delay_ms, via)]
        /\ IF DelayStatus(stream_id, delay_ms, via) = 200
           THEN /\ stream_delays' = [stream_delays EXCEPT ![stream_id] = delay_ms]
                /\ frame_buffers' =
                      [frame_buffers EXCEPT ![stream_id] = DelayPurge(@, clock, delay_ms)]
           ELSE UNCHANGED <<stream_delays, frame_buffers>>
        /\ UNCHANGED <<active_stream_ids, stream_caps, capobjs, is_running, start_time,
                       vision_processing, last_frames, stream_status, stream_init_timeout,
                       latest_vision_result, vision_api, tracking_enabled, ready, sleeping,
                       clock, recv_count, recv_result, recv_cycle, cleanups, faults,
                       late_writes>>
        /\ UNCHANGED <<flaky, manager_track, manager_is_running, stops>>
        /\ UNCHANGED <<mergerVars, visionVars, socketVars>>

\* no recv for a while: the track is pulled only while a peer is connected
TimePasses ==
    \E dt \in IdleSteps :
        /\ clock + dt <= MaxClock
        /\ clock' = clock + dt
        /\ UNCHANGED <<active_stream_ids, stream_caps, capobjs, is_running, start_time,
                       vision_processing, stream_delays, frame_buffers, last_frames,
                       stream_status, stream_init_timeout, latest_vision_result, vision_api,
                       tracking_enabled, ready, sleeping, recv_count, recv_result, recv_cycle,
                       cleanups, faults, late_writes>>
        /\ UNCHANGED <<mergerVars, engineVars, visionVars, socketVars>>

\* StreamCombinerManager.enable_vision_tracking -> VisionAPI.enable_tracking
EnableTracking ==
    /\ vision_api
    /\ ~tracking_enabled
    /\ tracking_enabled' = TRUE
    /\ UNCHANGED <<active_stream_ids, stream_caps, capobjs, is_running, start_time,
                   vision_processing, stream_delays, frame_buffers, last_frames, stream_status,
                   stream_init_timeout, latest_vision_result, vision_api, ready, sleeping,
                   clock, recv_count, recv_result, recv_cycle, cleanups, faults, late_writes>>
    /\ UNCHANGED <<mergerVars, engineVars, visionVars, socketVars>>

\* StreamCombinerManager.disable_vision_tracking -> VisionAPI.disable_tracking
DisableTracking ==
    /\ vision_api
    /\ tracking_enabled
    /\ tracking_enabled' = FALSE
    /\ UNCHANGED <<active_stream_ids, stream_caps, capobjs, is_running, start_time,
                   vision_processing, stream_delays, frame_buffers, last_frames, stream_status,
                   stream_init_timeout, latest_vision_result, vision_api, ready, sleeping,
                   clock, recv_count, recv_result, recv_cycle, cleanups, faults, late_writes>>
    /\ UNCHANGED <<mergerVars, engineVars, visionVars, socketVars>>

\* ------------------------------------------------------------------------
\* VisionAPI.process_combined_frame, as operators on the API's state
\*   api = [frame_counter, vision_frame_counter, last_vision_time,
\*          vision_frame_interval, cached_vision_result]
\* ------------------------------------------------------------------------

VisionState ==
    [frame_counter |-> frame_counter,
     vision_frame_counter |-> vision_frame_counter,
     last_vision_time |-> last_vision_time,
     vision_frame_interval |-> vision_frame_interval,
     cached_vision_result |-> cached_vision_result]

\* grid_cols of the frame layout calculation
VisionGridCols(num_streams) == IF num_streams = 1 THEN 1 ELSE 2

\* the regions cut out of a combined frame of `size`: entry i, for the i-th
\* of the first num_streams stream ids, is the 720x480 region at column
\* (i - 1) mod grid_cols, row (i - 1) div grid_cols, if it lies in the frame
ExtractRegions(num_streams, stream_ids, size) ==
    LET cols == VisionGridCols(num_streams)
        ids == SubSeq(stream_ids, 1, IF num_streams < Len(stream_ids)
                                     THEN num_streams ELSE Len(stream_ids))
        x_start(i) == ((i - 1) % cols) * TileWidth
        y_start(i) == ((i - 1) \div cols) * TileHeight
    IN  [i \in {j \in 1..Len(ids) : /\ y_start(j) + TileHeight <= size[2]
                                    /\ x_start(j) + TileWidth <= size[1]} |->
            [col |-> (i - 1) % cols, row |-> (i - 1) \div cols, stream_id |-> ids[i]]]

\* what a combined frame with the tiles `placed` shows in the region at
\* (col, row): the tile written there, or the black of np.zeros
RegionOf(placed, col, row) ==
    IF \E i \in DOMAIN placed : placed[i].col = col /\ placed[i].row = row
    THEN placed[CHOOSE i \in DOMAIN placed : placed[i].col = col /\ placed[i].row = row].tile
    ELSE [kind |-> "black"]

\* stream_frames: stream id -> the region cut out for it
StreamFrames(placed, num_streams, stream_ids, size) ==
    LET regions == ExtractRegions(num_streams, stream_ids, size)
    IN  [stream_id \in {regions[i].stream_id : i \in DOMAIN regions} |->
            LET i == CHOOSE j \in DOMAIN regions : regions[j].stream_id = stream_id
            IN  [col |-> regions[i].col, row |-> regions[i].row,
                 frame |-> RegionOf(placed, regions[i].col, regions[i].row)]]

\* what the tracker makes of the stream frames of the cameras `cameras`: it
\* raises, or it gives the ground-plane tracks of the pass (none, or one
\* track per camera 0 and 1, close to each other)
TrackerOutcomes(cameras) ==
    {[raised |-> TRUE, batch |-> <<>>], [raised |-> FALSE, batch |-> <<>>]}
        \cup {[raised |-> FALSE,
                batch |-> (IF 0 \in cameras THEN <<BEVTrack(KeyA, PNear1)>> ELSE <<>>)
                            \o (IF 1 \in cameras THEN <<BEVTrack(KeyB, PNear2)>> ELSE <<>>)]}

\* no call of merger.merge
NoMerge == [m |-> NewMerger, updated_tracks |-> <<>>, raised |-> FALSE, merges |-> <<>>]

\* a vision API that runs a full pass on every call
FullPassAlways(api, current_time) == FALSE

\* time_since_last_vision < self.vision_frame_interval and self.cached_vision_result
Throttled(api, current_time) ==
    /\ current_time - api.last_vision_time < api.vision_frame_interval
    /\ api.cached_vision_result # NoVisionResult

\* process_combined_frame on a frame with the tiles `placed`, at
\* time.time() = current_time, with the tracker doing `tracked`:
\* [api, m, merge, result, stream_frames, tracker_called, merger_called],
\* merge being what merger.merge did and result what is returned
ProcessCombinedFrame(api, m, enabled, placed, timestamp, num_streams, stream_ids, current_time, tracked, descending) ==
    LET idle == [api |-> api, m |-> m, merge |-> NoMerge, result |-> NoVisionResult,
                 stream_frames |-> EmptyDict, tracker_called |-> FALSE,
                 merger_called |-> FALSE]
        counted == [api EXCEPT !.frame_counter = @ + 1]
        started == [counted EXCEPT !.last_vision_time = current_time,
                                   !.vision_frame_counter = @ + 1]
        stream_frames == StreamFrames(placed, num_streams, stream_ids,
                                      CombinedSize(Len(stream_ids)))
    IN  IF ~enabled THEN idle
        ELSE IF Throttled(api, current_time)
        THEN [idle EXCEPT
                !.api = counted,
                !.result = [kind |-> "result",
                            frame_id |-> counted.frame_counter,
                            timestamp |-> timestamp,
                            bev_tracks |-> api.cached_vision_result.bev_tracks,
                            all_stream_tracks |-> api.cached_vision_result.all_stream_tracks,
                            num_streams |-> num_streams,
                            active_stream_ids |-> stream_ids,
                            processing |-> "cached"]]
        ELSE IF tracked.raised /\ DOMAIN stream_frames # {}
        THEN [idle EXCEPT !.api = started, !.stream_frames = stream_frames,
                          !.tracker_called = TRUE]
        ELSE LET batch == IF DOMAIN stream_frames = {} THEN <<>> ELSE tracked.batch
                 merge == MergeCall(m, batch, timestamp \div 1000, EmptyDict, descending)
                 result == [kind |-> "result",
                            frame_id |-> started.frame_counter,
                            timestamp |-> timestamp,
                            bev_tracks |-> merge.updated_tracks,
                            all_stream_tracks |-> batch,
                            num_streams |-> num_streams,
                            active_stream_ids |-> stream_ids,
                            processing |-> "full"]
             IN  [api |-> IF merge.raised THEN started
                          ELSE [started EXCEPT !.cached_vision_result = result],
                  m |-> merge.m,
                  merge |-> merge,
                  result |-> IF merge.raised THEN NoVisionResult ELSE result,
                  stream_frames |-> stream_frames,
                  tracker_called |-> DOMAIN stream_frames # {},
                  merger_called |-> TRUE]

\* how long after the recv that made it a detection pass reads the clock
PassLags == {0, 500}

\* a run of a _process_frame_vision task with the vision API's state spelled
\* out: the task has no await, so it runs from its first line to its finally
\* in one step
VisionPass ==
    \E lag \in PassLags, descending \in BOOLEAN,
       tracked \in TrackerOutcomes(Range(active_stream_ids)) :
        /\ Len(ready) > 0
        /\ Head(ready).kind = "vision"
        /\ ready' = Tail(ready)
        /\ IF vision_processing \/ ~vision_api
           THEN UNCHANGED <<vision_processing, latest_vision_result, late_writes, faults,
                            mergerVars, frame_counter, vision_frame_counter, last_vision_time,
                            cached_vision_result, vision_return, vision_extract,
                            tracker_calls, vision_clock>>
           ELSE \E r \in {ProcessCombinedFrame(VisionState, MergerState, tracking_enabled,
                                                Head(ready).frame, Head(ready).timestamp,
                                                Len(active_stream_ids), active_stream_ids,
                                                clock + lag, tracked, descending)} :
                /\ vision_processing' = FALSE
                /\ faults' = faults + (IF r.tracker_called /\ tracked.raised THEN 1 ELSE 0)
                /\ faults' <= MaxFaults
                /\ frame_counter' = r.api.frame_counter
                /\ vision_frame_counter' = r.api.vision_frame_counter
                /\ last_vision_time' = r.api.last_vision_time
                /\ cached_vision_result' = r.api.cached_vision_result
                /\ vision_return' = r.result
                /\ vision_extract' = r.stream_frames
                /\ vision_clock' = IF tracking_enabled THEN clock + lag ELSE vision_clock
                /\ tracker_calls' = tracker_calls + (IF r.tracker_called THEN 1 ELSE 0)
                /\ IF r.merger_called
                   THEN /\ global_tracks' = r.m.global_tracks
                        /\ next_global_id' = r.m.next_global_id
                        /\ track_id_mapping' = r.m.track_id_mapping
                        /\ total_tracks_created' = r.m.total_tracks_created
                        /\ multi_camera_associations' = r.m.multi_camera_associations
                        /\ merge_result' = IF r.merge.raised THEN <<>> ELSE r.merge.updated_tracks
                        /\ merge_raised' = r.merge.raised
                        /\ merge_log' = r.merge.merges
                        /\ expired_log' = expired_log
                              \cup ExpiredIds(MergerState, Head(ready).timestamp \div 1000)
                        /\ now' = Head(ready).timestamp \div 1000
                        /\ bev_tracks' = r.result.all_stream_tracks
                        /\ reid_features' = EmptyDict
                   ELSE UNCHANGED mergerVars
                /\ IF r.result # NoVisionResult
                   THEN /\ latest_vision_result' = [timestamp |-> Head(ready).timestamp]
                        /\ late_writes' = Late(Head(ready), {"latest_vision_result"})
                   ELSE UNCHANGED <<latest_vision_result, late_writes>>
        /\ UNCHANGED <<active_stream_ids, stream_caps, capobjs, is_running, start_time,
                       stream_delays, frame_buffers, last_frames, stream_status,
                       stream_init_timeout, vision_api, tracking_enabled, sleeping, clock,
                       recv_count, recv_result, recv_cycle, cleanups>>
        /\ UNCHANGED <<engineVars, vision_frame_interval, fps_calls, socketVars>>

\* the frame rates asked of set_vision_fps
FpsRequests == {0, 1, 60}

\* set_vision_fps(fps): the rate is clamped to [1, 30]
SetVisionFps ==
    \E fps \in FpsRequests :
        /\ vision_api
        /\ fps_calls < MaxFpsCalls
        /\ fps_calls' = fps_calls + 1
        /\ vision_frame_interval' = 1000 \div (IF fps < 1 THEN 1 ELSE IF fps > 30 THEN 30 ELSE fps)
        /\ UNCHANGED <<frame_counter, vision_frame_counter, last_vision_time,
                       cached_vision_result, vision_return, vision_extract, tracker_calls,
                       vision_clock>>
        /\ UNCHANGED <<mergerVars, combinerVars, engineVars, socketVars>>

\* ------------------------------------------------------------------------
\* VisionWebSocketManager
\* ------------------------------------------------------------------------

\* the websockets that clients open
Clients == {"w1", "w2"}

\* the endpoint is called for a websocket: connect() up to await websocket.accept()
Connect ==
    \E websocket \in Clients :
        /\ websocket \notin accepting \cup active_connections
        /\ accepting' = accepting \cup {websocket}
        /\ UNCHANGED <<active_connections, transmission_task, ws_is_running, loop_tasks,
                       stop_tasks>>
        /\ UNCHANGED <<mergerVars, combinerVars, engineVars, visionVars>>

\* connect() after accept() returned: the websocket is added, and the first
\* connection starts the transmission unless is_running is set
\* (start_transmission has no await of its own)
Accepted ==
    \E websocket \in accepting :
        /\ accepting' = accepting \ {websocket}
        /\ active_connections' = active_connections \cup {websocket}
        /\ IF Cardinality(active_connections') = 1 /\ ~ws_is_running
           THEN /\ Len(loop_tasks) < MaxLoopTasks
                /\ ws_is_running' = TRUE
                /\ loop_tasks' = Append(loop_tasks, "running")
                /\ transmission_task' = Len(loop_tasks) + 1
           ELSE UNCHANGED <<ws_is_running, loop_tasks, transmission_task>>
        /\ UNCHANGED stop_tasks
        /\ UNCHANGED <<mergerVars, combinerVars, engineVars, visionVars>>

\* disconnect(websocket): the websocket is discarded, and when none is left
\* while is_running is set a stop_transmission task is created
DisconnectBody(websocket) ==
    /\ active_connections' = active_connections \ {websocket}
    /\ IF active_connections' = {} /\ ws_is_running
       THEN /\ stop_tasks < MaxStopTasks
            /\ stop_tasks' = stop_tasks + 1
       ELSE UNCHANGED stop_tasks

\* the endpoint's finally for a connected websocket (the client went away),
\* or broadcast() dropping a websocket whose send failed
Disconnect ==
    \E websocket \in active_connections :
        /\ DisconnectBody(websocket)
        /\ UNCHANGED <<transmission_task, ws_is_running, loop_tasks, accepting>>
        /\ UNCHANGED <<mergerVars, combinerVars, engineVars, visionVars>>

\* accept() raises: the endpoint's finally calls disconnect for a websocket
\* that was never added
AcceptFails ==
    \E websocket \in accepting :
        /\ accepting' = accepting \ {websocket}
        /\ DisconnectBody(websocket)
        /\ UNCHANGED <<transmission_task, ws_is_running, loop_tasks>>
        /\ UNCHANGED <<mergerVars, combinerVars, engineVars, visionVars>>

\* a stop_transmission task runs: is_running is cleared and the loop task it
\* holds is cancelled unless it is done
StopTransmission ==
    /\ stop_tasks > 0
    /\ stop_tasks' = stop_tasks - 1
    /\ ws_is_running' = FALSE
    /\ loop_tasks' = IF transmission_task # 0 /\ loop_tasks[transmission_task] # "done"
                     THEN [loop_tasks EXCEPT ![transmission_task] = "cancelled"]
                     ELSE loop_tasks
    /\ UNCHANGED <<active_connections, transmission_task, accepting>>
    /\ UNCHANGED <<mergerVars, combinerVars, engineVars, visionVars>>

\* a _transmission_loop task goes on after its sleep and ends: it was
\* cancelled, or its while condition no longer holds
TransmissionLoop ==
    \E t \in DOMAIN loop_tasks :
        /\ \/ loop_tasks[t] = "cancelled"
           \/ loop_tasks[t] = "running" /\ ~(ws_is_running /\ active_connections # {})
        /\ loop_tasks' = [loop_tasks EXCEPT ![t] = "done"]
        /\ UNCHANGED <<active_connections, transmission_task, ws_is_running, accepting,
                       stop_tasks>>
        /\ UNCHANGED <<mergerVars, combinerVars, engineVars, visionVars>>

\* ------------------------------------------------------------------------
\* Specifications
\* ------------------------------------------------------------------------

MergerNext == Merge

CombinerNext ==
    \/ Recv
    \/ InitializeCapture
    \/ ProcessFrameVision
    \/ ReconnectStart
    \/ ReconnectReopen
    \/ ReconnectCheck
    \/ ReconnectRetry
    \/ Cleanup
    \/ EnableTracking
    \/ DisableTracking

\* the fusion engine alone, beside a combiner that stays as constructed
MergerSpec == DefaultInit /\ [][MergerNext]_vars

\* the stream combiner alone, beside a merger that stays as constructed
CombinerSpec == Init /\ [][CombinerNext]_vars

\* the manager and its track with reliable sources: one or two streams, the
\* consumer's recv, start() and stop()
ManagerInit ==
    \E n \in 1..2 :
        /\ MergerConstructed(NewMerger)
        /\ CombinerConstructed(EnabledStreams(n), FALSE)
        /\ ManagerConstructed({})
        /\ VisionAPIConstructed(DefaultVisionFps)
        /\ VisionWebSocketManagerConstructed({})

ManagerNext ==
    \/ Recv
    \/ InitializeCapture
    \/ ManagerStart
    \/ BackgroundStart
    \/ ManagerStop

ManagerSpec == ManagerInit /\ [][ManagerNext]_vars

\* one fusion cycle on tracks of the two-camera scenario, without features
MergeScenario ==
    \E batch \in ScenarioBatches, dt \in TimeSteps, descending \in BOOLEAN :
        /\ now + dt <= MaxTime
        /\ MergeStep(batch, EmptyDict, dt, descending)

ScenarioNext == MergeScenario

ScenarioSpec == DefaultInit /\ [][ScenarioNext]_vars

\* the fusion engine fed with batches that hold a track without camera id
MalformedNext == MergeMalformed

MalformedSpec == DefaultInit /\ [][MalformedNext]_vars

\* one or two streams of which the first or the second has an unreliable
\* source, a consumer that may pause, and a client that sets delays
DelayInit ==
    \E n \in 1..2, unreliable \in {{0}, {1}} :
        /\ MergerConstructed(NewMerger)
        /\ CombinerConstructed(EnabledStreams(n), FALSE)
        /\ ManagerConstructed(unreliable)
        /\ VisionAPIConstructed(DefaultVisionFps)
        /\ VisionWebSocketManagerConstructed({})

DelayNext ==
    \/ Recv
    \/ InitializeCapture
    \/ SetStreamDelay
    \/ TimePasses

DelaySpec == DelayInit /\ [][DelayNext]_vars

\* the combiner with the vision API's state spelled out: reliable sources,
\* with or without a registered API
VisionInit ==
    \E n \in 1..max_streams, api \in BOOLEAN :
        /\ MergerConstructed(NewMerger)
        /\ CombinerConstructed(EnabledStreams(n), api)
        /\ ManagerConstructed({})
        /\ VisionAPIConstructed(DefaultVisionFps)
        /\ VisionWebSocketManagerConstructed({})

VisionNext ==
    \/ Recv
    \/ InitializeCapture
    \/ VisionPass
    \/ EnableTracking
    \/ DisableTracking
    \/ SetVisionFps

VisionSpec == VisionInit /\ [][VisionNext]_vars

\* the websocket manager alone, beside an application that stays as constructed
SocketNext ==
    \/ Connect
    \/ Accepted
    \/ AcceptFails
    \/ Disconnect
    \/ StopTransmission
    \/ TransmissionLoop

SocketSpec == DefaultInit /\ [][SocketNext]_vars

\* every operation of the application
Next == MergerNext \/ MalformedNext \/ ScenarioNext \/ CombinerNext \/ ManagerNext \/ DelayNext \/ VisionNext
            \/ SocketNext

Spec == Init /\ [][Next]_vars

\* ------------------------------------------------------------------------
\* Properties of StreamCombinerTrack.recv
\* ------------------------------------------------------------------------

\* C1: every call of recv returns a frame, on whichever path (the black frame
\* while no capture is open, the composed canvas, the black frame of the
\* except branch), and its size is 720x480 for one configured stream,
\* 1440x480 for two and 1440x960 for three or four.
C1_RecvReturnsCanonicalFrame ==
    recv_count > 0 =>
        /\ recv_result.path \in {"black", "composed", "error"}
        /\ Len(active_stream_ids) = 1 => recv_result.width = 720 /\ recv_result.height = 480
        /\ Len(active_stream_ids) = 2 => recv_result.width = 1440 /\ recv_result.height = 480
        /\ Len(active_stream_ids) \in {3, 4} =>
               recv_result.width = 1440 /\ recv_result.height = 960

\* a recv of a three-stream combiner has ended in its except branch, after
\* earlier calls returned the black frame and a composed frame
C1_ErrorFrameOfThreeStreams ==
    /\ Len(active_stream_ids) = 3
    /\ recv_count >= 3
    /\ recv_result.path = "error"
    /\ recv_result.width = 1440
    /\ recv_result.height = 960

\* ------------------------------------------------------------------------
\* Properties of BEVClusterMerger.merge
\* ------------------------------------------------------------------------

\* C2: in the list a merge cycle returns, no two tracks of the same camera
\* with different local track ids carry the same global id.
C2_SameCameraTracksKeepApart ==
    \A i, j \in 1..Len(merge_result) :
        (/\ merge_result[i].camera_id = merge_result[j].camera_id
         /\ merge_result[i].track_id # merge_result[j].track_id)
            => merge_result[i].global_id # merge_result[j].global_id

\* C3: at the end of a merge cycle the registry holds no track that was
\* older than max_track_age_s at the start of the cycle, the mapping holds no
\* entry to a global id that the cycle removed by expiry, and a track whose
\* age was max_track_age_s exactly is not removed by expiry (it is still
\* registered unless the cycle merged it into another track).
C3_ExpiryClearsRegistryAndMapping ==
    [][now' # now =>
          LET expired == ExpiredIds(MergerState, now')
              merged == UNION {merge_log'[k].global_ids : k \in 1..Len(merge_log')}
          IN  /\ DOMAIN global_tracks' \cap expired = {}
              /\ \A key \in DOMAIN track_id_mapping' : track_id_mapping'[key] \notin expired
              /\ \A g \in DOMAIN global_tracks :
                    now' - global_tracks[g].last_seen = max_track_age_s
                        => g \in DOMAIN global_tracks' \/ g \in merged]_vars

\* C4: once a global id has been removed by expiry, no merge cycle returns a
\* track tagged with it.
C4_NoResurrection ==
    \A i \in 1..Len(merge_result) :
        \A g \in expired_log : merge_result[i].global_id # Int_(g)

\* C5: merge never raises.
C5_MergeNeverRaises == ~merge_raised

\* the cosine distance of two feature vectors is at most appearance_threshold:
\*   1 - dot / (|f| |g|) <= num / den  <=>  (den - num) |f| |g| <= den dot
CosineWithinThreshold(f, g) ==
    (appearance_threshold.den - appearance_threshold.num) * Norm(f) * Norm(g)
        <= appearance_threshold.den * Dot(f, g)

\* the feature vector handed to merge for a track, or NoneVal
FeatureOf(track) ==
    IF track.track_id \in DOMAIN reid_features THEN reid_features[track.track_id] ELSE NoneVal

\* the global ids the last cycle returned for the track object at position i
\* of its batch
ReturnedIds(i) ==
    {merge_result[k].global_id : k \in {n \in 1..Len(merge_result) : merge_result[n].object = i}}

\* C6: two tracks of one cycle that come from different cameras, lie at most
\* spatial_threshold apart and have a cosine distance of at most
\* appearance_threshold (or one of them has no feature) are both returned,
\* with the same global id.
C6_CloseTracksShareGlobalId ==
    \A i, j \in 1..Len(bev_tracks) :
        (/\ bev_tracks[i].camera_id # bev_tracks[j].camera_id
         /\ ~SpatialTooFar(<<bev_tracks[i].bev_x, bev_tracks[i].bev_y>>,
                           <<bev_tracks[j].bev_x, bev_tracks[j].bev_y>>)
         /\ \/ FeatureOf(bev_tracks[i]) = NoneVal
            \/ FeatureOf(bev_tracks[j]) = NoneVal
            \/ CosineWithinThreshold(FeatureOf(bev_tracks[i]), FeatureOf(bev_tracks[j])))
            => /\ ReturnedIds(i) # {}
               /\ ReturnedIds(i) = ReturnedIds(j)

\* C7: a merge of two or more live global ids keeps the numerically smallest
\* id, removes the others from the registry, and leaves the survivor with
\* every (camera id, local track id) membership the merged tracks had.
C7_MergeKeepsMinAndUnitesMemberships ==
    \A k \in 1..Len(merge_log) :
        LET e == merge_log[k] IN
        (Cardinality(e.global_ids) >= 2 /\ e.global_ids \subseteq DOMAIN e.before)
            => /\ \A g \in e.global_ids : Int_(e.primary_id) <= Int_(g)
               /\ e.primary_id \in DOMAIN e.after
               /\ \A g \in e.global_ids \ {e.primary_id} : g \notin DOMAIN e.after
               /\ \A g \in e.global_ids :
                     Memberships(e.before[g].camera_tracks)
                         \subseteq Memberships(e.after[e.primary_id].camera_tracks)

\* ------------------------------------------------------------------------
\* Properties of the combiner's background tasks
\* ------------------------------------------------------------------------

\* C8: at most one detection pass that recv dispatched is outstanding
\* (dispatched and not finished).
C8_OneDetectionPassOutstanding == Outstanding("vision") <= 1

\* C9: for each stream at most one _reconnect_stream task exists.
C9_OneReconnectTaskPerStream ==
    \A stream_id \in Range(active_stream_ids) : ReconnectsOf(stream_id) <= 1

\* C10: after cleanup, no _reconnect_stream or _process_frame_vision task
\* created before it writes stream_caps, stream_status, stream_init_timeout or
\* latest_vision_result.
C10_NoWriteAfterCleanup ==
    \A w \in late_writes :
        ~(/\ w.task \in {"reconnect", "vision"}
          /\ w.wrote \in {"stream_caps", "stream_status", "stream_init_timeout",
                          "latest_vision_result"})

\* C11: when StreamCombinerManager.stop() has returned, every capture the
\* track had opened is released, stream_caps is empty, and every delay buffer
\* and last-known-good frame is discarded, whether the captures were built by
\* start()'s background initialisation or by recv's on-demand initialisation
C11_StopReleasesEverything ==
    [][stops' # stops =>
          /\ stream_caps' = <<>>
          /\ \A c \in 1..Len(capobjs') : capobjs'[c].released
          /\ \A stream_id \in DOMAIN frame_buffers' : frame_buffers'[stream_id] = <<>>
          /\ \A stream_id \in DOMAIN last_frames' : last_frames'[stream_id] = NoFrame]_vars

\* the tile of a stream on the frame the last recv returned: NoTile if the
\* frame shows none for it
NoTile == [kind |-> "none"]

TileOf(frame, stream_id) ==
    IF \E i \in DOMAIN frame.tiles : frame.tiles[i].stream_id = stream_id
    THEN frame.tiles[CHOOSE i \in DOMAIN frame.tiles : frame.tiles[i].stream_id = stream_id].tile
    ELSE NoTile

\* C12: in a cycle in which the read of one stream fails (no frame, or it
\* raises) while the read of another stream, which is Ready, succeeds, the
\* returned canvas shows a video frame in the tile of that other stream
C12_FailureIsolation ==
    [][recv_count' # recv_count /\ recv_cycle'.fault = "none" =>
          \A failing, other \in DOMAIN recv_cycle'.reads :
              /\ failing # other
              /\ recv_cycle'.reads[failing] \in {"fail", "raise"}
              /\ recv_cycle'.reads[other] = "ok"
              /\ stream_status[other] = "ready"
              => TileOf(recv_result', other).kind = "video"]_vars

\* C13: in every composed frame, the tile of a stream that is not Ready
\* (initializing, timeout, error or reconnecting) is the status placeholder
\* labelled with the stream's id and state, never a video frame
C13_NonReadyShowsPlaceholder ==
    [][recv_count' # recv_count /\ recv_result'.path = "composed" =>
          \A stream_id \in Range(active_stream_ids) :
              /\ stream_status'[stream_id] # "ready"
              /\ TileOf(recv_result', stream_id) # NoTile
              => TileOf(recv_result', stream_id)
                    = StatusFrame(stream_id, stream_status'[stream_id])]_vars

\* the changes of health state the specification lists
HealthEdges ==
    {<<"initializing", "ready">>, <<"initializing", "timeout">>, <<"ready", "error">>,
     <<"error", "reconnecting">>, <<"reconnecting", "initializing">>}

\* C14: during operation (cleanup apart) every change of a stream's health
\* state is one of initializing->ready, initializing->timeout, ready->error,
\* error->reconnecting, reconnecting->initializing
C14_OnlyListedHealthEdges ==
    [][cleanups' = cleanups =>
          \A stream_id \in Range(active_stream_ids) :
              stream_status'[stream_id] # stream_status[stream_id]
              => <<stream_status[stream_id], stream_status'[stream_id]>> \in HealthEdges]_vars

\* C15: the cycle in which the read of a Ready stream delivers no frame sets
\* the stream to error and schedules a reconnect for it; and from then on,
\* until a reopen succeeds, a reconnect attempt is pending: a stream that
\* has delivered frames and is in error or reconnecting has a
\* _reconnect_stream task that is not finished (cleanup apart)
C15_ReconnectUntilReopened ==
    [][/\ recv_count' # recv_count =>
            \A stream_id \in DOMAIN recv_cycle'.reads :
                stream_status[stream_id] = "ready" /\ recv_cycle'.reads[stream_id] = "fail"
                => /\ stream_status'[stream_id] = "error"
                   /\ ReconnectsOf(stream_id)' = ReconnectsOf(stream_id) + 1
       /\ cleanups' = 0 =>
            \A stream_id \in Range(active_stream_ids) :
                /\ stream_status'[stream_id] \in {"error", "reconnecting"}
                /\ last_frames'[stream_id] # NoFrame
                => ReconnectsOf(stream_id)' >= 1]_vars

\* the initial open of a stream failed and nothing has replaced it: the
\* captures were built, the stream has no capture or one that is not open,
\* and it has not delivered a frame
InitialOpenFailed(stream_id) ==
    /\ cleanups = 0
    /\ is_running
    /\ last_frames[stream_id] = NoFrame
    /\ \/ ~HasCap(stream_caps, stream_id)
       \/ ~IsOpened(capobjs, CapOf(stream_caps, stream_id))

\* C16: a stream whose initial open failed is in initializing or error, and
\* a background reopen is on its way: a _reconnect_stream task for it is
\* pending, or there is no capture at all, so that the next recv schedules
\* _initialize_capture again
C16_FailedOpenIsRetried ==
    \A stream_id \in Range(active_stream_ids) :
        InitialOpenFailed(stream_id)
        => /\ stream_status[stream_id] \in {"initializing", "error"}
           /\ ReconnectsOf(stream_id) >= 1 \/ stream_caps = <<>>

\* C17: the recv cycle after the init deadline of a stream that is
\* initializing, whose capture was built, and which delivers no frame in
\* it, moves the stream to timeout, whatever the other streams do, also
\* when no capture is open (cycles in which a read raises apart)
C17_InitDeadlineGivesTimeout ==
    [][/\ recv_count' # recv_count
       /\ \A s \in DOMAIN recv_cycle'.reads : recv_cycle'.reads[s] \notin {"raise", "skipped"}
       => \A stream_id \in Range(active_stream_ids) :
              /\ stream_status[stream_id] = "initializing"
              /\ HasCap(stream_caps, stream_id)
              /\ clock' > stream_init_timeout[stream_id]
              /\ last_frames'[stream_id] = NoFrame
              => stream_status'[stream_id] = "timeout"]_vars

C19_UndelayedTileIsFreshOrLastGood ==
    [][recv_count' # recv_count /\ recv_result'.path = "composed" =>
          \A stream_id \in DOMAIN recv_cycle'.reads :
              stream_status[stream_id] = "ready" /\ stream_delays[stream_id] = 0
              => /\ recv_cycle'.reads[stream_id] = "ok"
                    => TileOf(recv_result', stream_id)
                          = VideoTile([stream_id |-> stream_id, cycle |-> recv_count'])
                 /\ recv_cycle'.reads[stream_id] = "fail"
                    => TileOf(recv_result', stream_id) = VideoTile(last_frames[stream_id])]_vars

\* d clamped to [0, MaxDelayMs]
Clamp(d) == IF d < 0 THEN 0 ELSE IF d > MaxDelayMs THEN MaxDelayMs ELSE d

\* C20: every stored delay lies within [0, 5000], and after a request to set
\* the delay of a valid stream to d the stored delay of that stream is d
\* clamped to [0, 5000]
C20_DelayIsClamped ==
    /\ \A stream_id \in DOMAIN stream_delays :
          0 <= stream_delays[stream_id] /\ stream_delays[stream_id] <= MaxDelayMs
    /\ set_delay_call.stream_id \in Range(active_stream_ids)
          => stream_delays[set_delay_call.stream_id] = Clamp(set_delay_call.delay_ms)

\* C21: at the end of every recv cycle no delay buffer holds an entry older
\* than the retention window of its stream: RetentionMs when the stream has
\* a delay, NoDelayRetentionMs when its delay is 0
C21_BuffersWithinRetention ==
    [][recv_count' # recv_count =>
          \A stream_id \in DOMAIN frame_buffers' :
              \A k \in 1..Len(frame_buffers'[stream_id]) :
                  clock' - frame_buffers'[stream_id][k].timestamp
                      <= (IF stream_delays'[stream_id] = 0
                          THEN NoDelayRetentionMs ELSE RetentionMs)]_vars

\* C22: at the end of a merge cycle with timestamp t, the global track of
\* every returned track is registered, has last_seen = t, has a position
\* sample with timestamp t, and has the track's camera id -> local track id
\* among its memberships
C22_TouchedTrackIsRefreshed ==
    \A i \in 1..Len(merge_result) :
        LET g == Str(merge_result[i].global_id) IN
        /\ g \in DOMAIN global_tracks
        /\ global_tracks[g].last_seen = now
        /\ \E p \in 1..Len(global_tracks[g].positions) : global_tracks[g].positions[p][3] = now
        /\ <<merge_result[i].camera_id, merge_result[i].track_id>>
              \in Memberships(global_tracks[g].camera_tracks)

\* the global ids the last cycle retired: those it merged into another id
RetiredIds(log) ==
    UNION {log[k].global_ids \ {log[k].primary_id} : k \in 1..Len(log)}

\* C23: after a cycle that merged global ids into a surviving id, the
\* retired ids are not in the registry, no mapping entry refers to a retired
\* id, and every local track that mapped to a retired id maps to an id that
\* survived a merge of the cycle
C23_RetiredIdsAreGone ==
    [][now' # now /\ ~merge_raised' =>
          LET retired == RetiredIds(merge_log')
              survivors == {merge_log'[k].primary_id : k \in 1..Len(merge_log')}
          IN  /\ DOMAIN global_tracks' \cap retired = {}
              /\ \A key \in DOMAIN track_id_mapping' : track_id_mapping'[key] \notin retired
              /\ \A key \in DOMAIN track_id_mapping \cap DOMAIN track_id_mapping' :
                    track_id_mapping[key] \in retired
                        => track_id_mapping'[key] \in survivors]_vars

\* C24: a merge cycle returns exactly the tracks it was given: each track
\* object of the batch once, unchanged but for its global id, and the global
\* id of each is set
C24_ReturnsTheGivenTracks ==
    /\ Len(merge_result) = Len(bev_tracks)
    /\ \A i \in 1..Len(bev_tracks) :
          \E k \in 1..Len(merge_result) :
              /\ merge_result[k].object = i
              /\ merge_result[k].track_id = bev_tracks[i].track_id
              /\ merge_result[k].camera_id = bev_tracks[i].camera_id
              /\ merge_result[k].bev_x = bev_tracks[i].bev_x
              /\ merge_result[k].bev_y = bev_tracks[i].bev_y
              /\ merge_result[k].global_id >= 1

\* the tracks of a batch that have a camera id
WellFormed(batch) == SelectSeq(batch, LAMBDA t : t.camera_id # NoCamera)

\* C25: a track without camera id is dropped by merge: it is not returned,
\* no mapping entry and no membership is made for it, and the registry and
\* the mapping end as if the batch had been given without it
C25_TrackWithoutCameraIsDropped ==
    [][now' # now /\ ~merge_raised' =>
          /\ \A k \in 1..Len(merge_result') : merge_result'[k].camera_id # NoCamera
          /\ \A key \in DOMAIN track_id_mapping' : key[1] # NoCamera
          /\ \A g \in DOMAIN global_tracks' :
                NoCamera \notin DOMAIN global_tracks'[g].camera_tracks
          /\ \E descending \in BOOLEAN :
                \E r \in {MergeCall(MergerState, WellFormed(bev_tracks'), now',
                                     reid_features', descending)} :
                    /\ global_tracks' = r.m.global_tracks
                    /\ track_id_mapping' = r.m.track_id_mapping]_vars

\* an edge as the clustering is described: different cameras, at most
\* spatial_threshold apart, and not both with features whose cosine distance
\* is above appearance_threshold
DescribedEdge(ci, cj) ==
    /\ ci.camera_id # cj.camera_id
    /\ ~SpatialTooFar(ci.position, cj.position)
    /\ ~(/\ ci.appearance_features # NoneVal
         /\ cj.appearance_features # NoneVal
         /\ ~CosineWithinThreshold(ci.appearance_features, cj.appearance_features))

\* the candidates joined to candidate i by a path of described edges
RECURSIVE PathClosure(_, _)
PathClosure(reached, candidates) ==
    LET more == reached \cup
                    {j \in 1..Len(candidates) :
                        \E u \in reached : DescribedEdge(candidates[u], candidates[j])}
    IN  IF more = reached THEN reached ELSE PathClosure(more, candidates)

\* C26: the clusters of a cycle's batch partition its tracks, and two tracks
\* share a cluster exactly when a path of edges joins them, an edge joining
\* tracks of different cameras that are at most spatial_threshold apart and
\* do not both have features with cosine distance above appearance_threshold
C26_ClustersAreComponents ==
    LET candidates == Candidates(bev_tracks, reid_features)
        clusters == ClusterTracks(candidates)
        ClusterOf(i) == {k \in 1..Len(clusters) :
                            \E n \in 1..Len(clusters[k]) : clusters[k][n] = i}
    IN  /\ \A i \in 1..Len(candidates) : Cardinality(ClusterOf(i)) = 1
        /\ \A k \in 1..Len(clusters) :
              \A n1, n2 \in 1..Len(clusters[k]) : clusters[k][n1] = clusters[k][n2] => n1 = n2
        /\ \A i, j \in 1..Len(candidates) :
              ClusterOf(i) = ClusterOf(j) <=> j \in PathClosure({i}, candidates)

\* C27: the id counter only grows: the ids a cycle adds to the registry are
\* at least the counter before the cycle and below the counter after it (so
\* greater than every id allocated before, and never an id used before),
\* every id of the registry is below next_global_id, and
\* total_tracks_created = next_global_id - 1.
C27_IdsComeFromAGrowingCounter ==
    [][/\ next_global_id' >= next_global_id
       /\ \A g \in DOMAIN global_tracks' \ DOMAIN global_tracks :
             /\ Int_(g) >= next_global_id
             /\ g \notin expired_log'
       /\ Cardinality(DOMAIN global_tracks' \ DOMAIN global_tracks)
             = next_global_id' - next_global_id
       /\ \A g \in DOMAIN global_tracks' : Int_(g) < next_global_id'
       /\ \A g \in DOMAIN global_tracks : Int_(g) < next_global_id
       /\ total_tracks_created' = next_global_id' - 1
       /\ total_tracks_created = next_global_id - 1]_vars

\* ids were allocated in three cycles, the last one after earlier global
\* tracks had expired
C27_AllocatedAfterExpiry ==
    /\ next_global_id >= 4
    /\ expired_log # {}
    /\ now >= 3 * max_track_age_s
    /\ \E g \in DOMAIN global_tracks :
          /\ Int_(g) = next_global_id - 1
          /\ global_tracks[g].last_seen = now

\* a step that runs _initialize_capture: a task of recv's or the manager's
\* background start
InitialisationStep ==
    /\ Len(ready) > 0
    /\ Head(ready).kind \in {"initialize", "background_start"}
    /\ ready' = Tail(ready)
    /\ Head(ready).kind = "background_start" => manager_track

\* the captures ever created for a stream, and those of them not released
Captures(objs, stream_id) == {k \in 1..Len(objs) : objs[k].stream_id = stream_id}
HeldCaptures(objs, stream_id) == {k \in Captures(objs, stream_id) : ~objs[k].released}

\* an initialisation that finds captures changes nothing on the track
PopulatedInitialisationIsNoOp ==
    InitialisationStep /\ stream_caps # <<>> =>
        UNCHANGED <<active_stream_ids, stream_caps, capobjs, is_running, start_time,
                    stream_delays, frame_buffers, last_frames, stream_status,
                    stream_init_timeout>>

C30_PtsStartsAtZeroAndNeverDecreases ==
    [][recv_count' # recv_count =>
          /\ recv_count = 0 => recv_result'.pts = 0
          /\ recv_count > 0 => recv_result'.pts >= recv_result.pts
          /\ recv_result'.pts = (clock' - start_time') * PtsPerMs
          /\ recv_result'.path \in {"black", "composed", "error"}]_vars

\* after composed frames and a cleanup(), recv returned a black frame whose
\* pts is that of the third second
C30_BlackFrameAfterCleanup ==
    /\ cleanups = 1
    /\ recv_count >= 3
    /\ recv_result.path = "black"
    /\ recv_result.pts >= 2 * 1000 * PtsPerMs
    /\ \E k \in 1..Len(capobjs) : capobjs[k].opened /\ capobjs[k].released

\* C31: a set_stream_delay that is carried out stores the delay of its
\* stream and of no other, removes from that stream's buffer only entries
\* older than the new delay plus 2 s and nothing from another buffer, and
\* leaves captures, health states, init deadlines and last-known-good frames
\* alone; the composed frame of a later recv shows for that stream the
\* buffered frame nearest to now minus the stored delay (the frame just read
\* when the stored delay is 0).
C31_SetDelayTouchesOnlyItsStream ==
    [][/\ delay_calls' # delay_calls /\ set_delay_call'.status = 200 =>
             LET stream_id == set_delay_call'.stream_id
                 delay_ms == set_delay_call'.delay_ms
                 old == frame_buffers[stream_id]
             IN  /\ stream_delays' = [stream_delays EXCEPT ![stream_id] = delay_ms]
                 /\ \A other \in DOMAIN frame_buffers \ {stream_id} :
                       frame_buffers'[other] = frame_buffers[other]
                 /\ \E n \in 0..Len(old) :
                       /\ frame_buffers'[stream_id] = SubSeq(old, n + 1, Len(old))
                       /\ \A k \in 1..n : clock - old[k].timestamp > delay_ms + DelaySlackMs
                 /\ UNCHANGED <<stream_caps, capobjs, stream_status, stream_init_timeout,
                                last_frames, is_running>>
       /\ (/\ recv_count' # recv_count
           /\ recv_result'.path = "composed"
           /\ set_delay_call.status = 200) =>
             LET stream_id == set_delay_call.stream_id
                 delay_ms == set_delay_call.delay_ms
                 tile == TileOf(recv_result', stream_id)
                 buffer == frame_buffers'[stream_id]
             IN  /\ stream_delays'[stream_id] = delay_ms
                 /\ (stream_status'[stream_id] = "ready" /\ tile # NoTile) =>
                       IF delay_ms = 0
                       THEN recv_cycle'.reads[stream_id] = "ok" =>
                               tile = VideoTile([stream_id |-> stream_id, cycle |-> recv_count'])
                       ELSE IF buffer # <<>>
                       THEN /\ tile.kind = "video"
                            /\ \E k \in 1..Len(buffer) :
                                  /\ buffer[k].frame = tile.frame
                                  /\ \A j \in 1..Len(buffer) :
                                        AbsDiff(buffer[k].timestamp, clock' - delay_ms)
                                            <= AbsDiff(buffer[j].timestamp, clock' - delay_ms)
                       ELSE tile = VideoTile(last_frames'[stream_id])]_vars

\* a delay of 1.5 s was set for one of two streams whose buffers held frames
\* older than 3.5 s: its buffer is empty, the other stream's is as it was
C31_OnlyOneBufferPurged ==
    \E stream_id, other \in Range(active_stream_ids) :
        /\ stream_id # other
        /\ set_delay_call.status = 200
        /\ set_delay_call.stream_id = stream_id
        /\ set_delay_call.delay_ms = 1500
        /\ stream_delays[stream_id] = 1500
        /\ stream_delays[other] = 0
        /\ frame_buffers[stream_id] = <<>>
        /\ last_frames[stream_id] # NoFrame
        /\ Len(frame_buffers[other]) >= 2
        /\ clock - frame_buffers[other][1].timestamp > 1500 + DelaySlackMs

\* the time between two frames of a steadily pulled track
FrameInterval == CHOOSE dt \in RecvSteps : TRUE

\* recv was called at every frame interval since the first call, and no
\* open or read has failed: every stream delivers a frame in every cycle
\* since its capture was made
SteadyDelivery(time, started, count, failed) ==
    /\ failed = 0
    /\ time - started = (count - 1) * FrameInterval

\* C32: a stream that delivers steadily, whose delay was changed from 0 to D
\* with 0 < D <= 5000 ms, is shown with a frame whose timestamp is within
\* one frame interval of now - D as soon as it has delivered for D (so
\* within a retention window of the change), and from then on.
C32_DelayedFrameIsNearTarget ==
    [][(/\ recv_count' # recv_count
        /\ recv_result'.path = "composed"
        /\ SteadyDelivery(clock', start_time', recv_count', faults')
        /\ set_delay_call.status = 200
        /\ set_delay_call.delay_ms > 0
        /\ set_delay_call.delay_ms <= MaxDelayMs) =>
          LET stream_id == set_delay_call.stream_id
              D == set_delay_call.delay_ms
              tile == TileOf(recv_result', stream_id)
              opened == stream_init_timeout'[stream_id] - InitTimeoutMs
          IN  (/\ stream_status[stream_id] = "ready"
               /\ stream_status'[stream_id] = "ready"
               /\ clock' - opened >= D) =>
                  /\ tile # NoTile
                  /\ tile.kind = "video"
                  /\ AbsDiff(start_time' + (tile.frame.cycle - 1) * FrameInterval, clock' - D)
                        <= FrameInterval]_vars

\* the stream whose delay was set to 1.5 s has delivered for three seconds
\* and is shown with a frame read in an earlier cycle
C32_ShownBehindByTheDelay ==
    \E stream_id \in Range(active_stream_ids) :
        /\ SteadyDelivery(clock, start_time, recv_count, faults)
        /\ set_delay_call.status = 200
        /\ set_delay_call.stream_id = stream_id
        /\ set_delay_call.delay_ms = 1500
        /\ recv_result.path = "composed"
        /\ stream_status[stream_id] = "ready"
        /\ Len(frame_buffers[stream_id]) >= 3
        /\ last_frames[stream_id].cycle = recv_count
        /\ TileOf(recv_result, stream_id).kind = "video"
        /\ TileOf(recv_result, stream_id).frame.cycle < recv_count
        /\ TileOf(recv_result, stream_id).frame.cycle >= recv_count - 2

\* a step that runs a _process_frame_vision task
PassStep ==
    /\ Len(ready) > 0
    /\ Head(ready).kind = "vision"
    /\ ready' = Tail(ready)

\* the detection passes dispatched and not yet run
PendingPasses(tasks) == Len(SelectSeq(tasks, LAMBDA t : t.kind = "vision"))

\* C33: while tracking is disabled or no vision API is registered, recv
\* dispatches no detection pass and still returns a frame (the composed one
\* when a capture is open and composing does not fail), and a call of
\* process_combined_frame returns None and changes neither the frame
\* counters, nor the cached result, nor the tracker's and the merger's state.
C33_DisabledDetectionDoesNothing ==
    [][/\ (recv_count' # recv_count /\ ~(vision_api /\ tracking_enabled)) =>
             /\ PendingPasses(ready') = PendingPasses(ready)
             /\ recv_result'.path \in {"black", "composed", "error"}
             /\ (/\ recv_cycle'.fault = "none"
                 /\ \E k \in 1..Len(stream_caps) : IsOpened(capobjs, stream_caps[k].cap))
                   => recv_result'.path = "composed"
       /\ (PassStep /\ ~(vision_api /\ tracking_enabled)) =>
             /\ vision_return' = NoVisionResult
             /\ UNCHANGED <<frame_counter, vision_frame_counter, last_vision_time,
                            cached_vision_result, tracker_calls, mergerVars,
                            latest_vision_result>>]_vars

\* after a pass that gave a result, tracking was disabled, and the pass that
\* had been dispatched before returned None without a failure; recv goes on
\* returning composed frames
C33_PassRanWhileDisabled ==
    /\ vision_api
    /\ ~tracking_enabled
    /\ frame_counter >= 1
    /\ cached_vision_result # NoVisionResult
    /\ vision_return = NoVisionResult
    /\ faults = 0
    /\ ~merge_raised
    /\ ready = <<>>
    /\ recv_result.path = "composed"

\* C34: on a new merger, one cycle with a camera-0 track at (100, 100), a
\* camera-1 track at (105, 102) and another camera-0 track at (500, 500),
\* without features, leaves exactly two global tracks; the first two tracks
\* are returned with one global id and the third with another.
C34_TwoCameraScenario ==
    [][(/\ now' # now
        /\ next_global_id = 1
        /\ global_tracks = EmptyDict
        /\ track_id_mapping = EmptyDict
        /\ bev_tracks' = ScenarioTracks) =>
          /\ ~merge_raised'
          /\ Cardinality(DOMAIN global_tracks') = 2
          /\ Len(merge_result') = 3
          /\ \A i \in 1..3 : ReturnedIds(i)' # {}
          /\ ReturnedIds(1)' = ReturnedIds(2)'
          /\ Cardinality(ReturnedIds(1)') = 1
          /\ Cardinality(ReturnedIds(3)') = 1
          /\ ReturnedIds(3)' # ReturnedIds(1)'
          /\ \A i \in 1..3 : \A g \in ReturnedIds(i)' : Str(g) \in DOMAIN global_tracks']_vars

\* the scenario's cycle has run on a new merger
C34_ScenarioRan ==
    /\ bev_tracks = ScenarioTracks
    /\ next_global_id = 3
    /\ total_tracks_created = 2
    /\ Cardinality(DOMAIN global_tracks) = 2
    /\ ~merge_raised

\* C35: after every merge cycle every GlobalTrack of the registry is stored
\* under its own global_id, and each (camera id -> local track id) entry of
\* its camera_tracks is a key of the mapping whose value is that global_id
C35_MembershipsAreMapped ==
    \A g \in DOMAIN global_tracks :
        /\ global_tracks[g].global_id = g
        /\ \A k \in Memberships(global_tracks[g].camera_tracks) :
               /\ k \in DOMAIN track_id_mapping
               /\ track_id_mapping[k] = g

\* a cycle merged two registry entries into one that now holds memberships of
\* both cameras while a third local track is mapped as well
C35_MergedEntryMapped ==
    /\ ~merge_raised
    /\ Len(merge_log) > 0
    /\ \E g \in DOMAIN global_tracks :
           /\ Cardinality(DOMAIN global_tracks[g].camera_tracks) = 2
           /\ Cardinality({k \in DOMAIN track_id_mapping : track_id_mapping[k] = g}) = 3

\* the global ids the last cycle returned for the local track key
IdsOf(key) ==
    {merge_result[k].global_id :
        k \in {n \in 1..Len(merge_result) :
                  /\ merge_result[n].camera_id = key[1]
                  /\ merge_result[n].track_id = key[2]}}

\* C36: a local track that is present in two consecutive merge cycles at most
\* max_track_age_s apart is returned with a global id that is not higher in
\* the second cycle than in the first: the same id, or a lower-numbered one
\* through a merge
C36_GlobalIdNeverIncreases ==
    [][(now' # now /\ now' - now <= max_track_age_s) =>
          \A key \in {KeyA, KeyB, KeyC} :
              \A i \in IdsOf(key), j \in IdsOf(key)' : j <= i]_vars

\* the last cycle merged the global tracks 1 and 2, and a local track that
\* was created as global track 2 is returned as 1
C36_LoweredByMerge ==
    /\ ~merge_raised
    /\ \E k \in 1..Len(merge_log) : merge_log[k].global_ids = {Str(1), Str(2)}
    /\ Str(1) \in DOMAIN global_tracks
    /\ Str(2) \notin DOMAIN global_tracks
    /\ \E key \in {KeyA, KeyB, KeyC} :
           /\ IdsOf(key) = {1}
           /\ key \in Memberships(global_tracks[Str(1)].camera_tracks)
           /\ \E p \in 1..Len(global_tracks[Str(1)].positions) :
                  global_tracks[Str(1)].positions[p][3] < now

\* C37: a detection pass that starts leaves vision_processing cleared when it
\* ends, whether the vision API returned a result, returned None or raised;
\* the pass changes nothing of what recv returned; latest_vision_result is
\* replaced only by a pass that returned a result; and a recv that composes a
\* frame while tracking is enabled dispatches a pass, also after failed passes
C37_FailedPassBlocksNothing ==
    [][/\ PassStep =>
             /\ ~vision_processing'
             /\ UNCHANGED <<recv_result, recv_count, recv_cycle>>
             /\ (latest_vision_result' # latest_vision_result) =>
                    (vision_api /\ tracking_enabled /\ faults' = faults)
             /\ (faults' # faults) => UNCHANGED latest_vision_result
       /\ (/\ recv_count' # recv_count
           /\ vision_api /\ tracking_enabled
           /\ recv_result'.path = "composed") =>
             PendingPasses(ready') = PendingPasses(ready) + 1]_vars

\* the first composed cycle dispatched a pass and that pass failed: the only
\* fault so far is the pass's, the flag is cleared, no result is stored and
\* what recv returned is the composed frame
C37_FailedPassFlagCleared ==
    /\ vision_api
    /\ tracking_enabled
    /\ ~vision_processing
    /\ recv_count = 2
    /\ faults = 1
    /\ ready = <<>>
    /\ sleeping = <<>>
    /\ recv_result.path = "composed"
    /\ recv_cycle.fault = "none"
    /\ Len(active_stream_ids) > 0
    /\ \A k \in 1..Len(active_stream_ids) :
           /\ stream_status[active_stream_ids[k]] = "ready"
           /\ recv_cycle.reads[active_stream_ids[k]] = "ok"
    /\ latest_vision_result = NoResult

\* C38: a call of process_combined_frame while enabled that comes less than
\* vision_frame_interval after the last processed pass, with a cached result
\* present, calls neither the tracker nor the merger, leaves the fusion state
\* and the cache as they are, and returns the cached tracks stamped with the
\* new frame id and timestamp; any other call while enabled runs a full pass
\* (the tracker is called, last_vision_time is the time of the call), and the
\* cached result is replaced only by the result that a full pass returns.
C38_ThrottledPassReturnsTheCache ==
    [][(PassStep /\ vision_api /\ tracking_enabled /\ ~vision_processing) =>
          /\ frame_counter' = frame_counter + 1
          /\ IF /\ vision_clock' - last_vision_time < vision_frame_interval
                /\ cached_vision_result # NoVisionResult
             THEN /\ UNCHANGED <<tracker_calls, mergerVars, cached_vision_result,
                                 last_vision_time, vision_frame_counter>>
                  /\ vision_return' # NoVisionResult
                  /\ vision_return'.bev_tracks = cached_vision_result.bev_tracks
                  /\ vision_return'.all_stream_tracks = cached_vision_result.all_stream_tracks
                  /\ vision_return'.frame_id = frame_counter'
                  /\ vision_return'.timestamp = Head(ready).timestamp
             ELSE /\ tracker_calls' = tracker_calls + 1
                  /\ last_vision_time' = vision_clock'
                  /\ vision_frame_counter' = vision_frame_counter + 1
                  /\ \/ /\ vision_return' # NoVisionResult
                        /\ cached_vision_result' = vision_return'
                     \/ /\ vision_return' = NoVisionResult
                        /\ UNCHANGED cached_vision_result]_vars

\* a pass inside the interval of the last processed one returned the cached
\* tracks under a newer frame id, after a full pass that had created a global
\* track
C38_CachedResultReturned ==
    /\ vision_api
    /\ tracking_enabled
    /\ cached_vision_result # NoVisionResult
    /\ vision_return # NoVisionResult
    /\ vision_return.processing = "cached"
    /\ vision_return.frame_id > cached_vision_result.frame_id
    /\ vision_return.bev_tracks = cached_vision_result.bev_tracks
    /\ Len(vision_return.bev_tracks) > 0
    /\ frame_counter > vision_frame_counter
    /\ total_tracks_created > 0

\* C39: for 1 to 4 active streams a composed frame holds, for the stream at
\* index i (from 0), one 720x480 tile at column i mod cols, row i div cols
\* (cols = 1 for one stream, otherwise 2); the tiles are pairwise disjoint and
\* lie inside the canvas; and a full detection pass cuts out for each stream
\* id exactly the region in which the combiner placed that stream's tile.
C39_TilesAndRegionsAgree ==
    [][/\ (recv_count' # recv_count /\ recv_result'.path = "composed") =>
             LET n == Len(active_stream_ids)
                 cols == IF n = 1 THEN 1 ELSE 2
                 tiles == recv_result'.tiles
             IN  /\ n \in 1..4
                 /\ \A i \in 1..n :
                        \E k \in DOMAIN tiles :
                            /\ tiles[k].stream_id = active_stream_ids[i]
                            /\ tiles[k].col = (i - 1) % cols
                            /\ tiles[k].row = (i - 1) \div cols
                            /\ \A h \in DOMAIN tiles :
                                   tiles[h].stream_id = active_stream_ids[i] => h = k
                 /\ \A k, h \in DOMAIN tiles :
                        (k # h) => (tiles[k].col # tiles[h].col \/ tiles[k].row # tiles[h].row)
                 /\ \A k \in DOMAIN tiles :
                        /\ tiles[k].col >= 0 /\ tiles[k].row >= 0
                        /\ (tiles[k].col + 1) * TileWidth <= recv_result'.width
                        /\ (tiles[k].row + 1) * TileHeight <= recv_result'.height
       /\ (PassStep /\ vision_frame_counter' # vision_frame_counter) =>
             LET placed == Head(ready).frame
             IN  /\ DOMAIN vision_extract' = Range(active_stream_ids)
                 /\ \A k \in DOMAIN placed :
                        /\ vision_extract'[placed[k].stream_id].col = placed[k].col
                        /\ vision_extract'[placed[k].stream_id].row = placed[k].row
                        /\ vision_extract'[placed[k].stream_id].frame = placed[k].tile]_vars

\* four streams: the composed frame holds the four tiles of a 2x2 grid, and
\* a full detection pass has cut out the region of each of the four streams
C39_FourTilesExtracted ==
    /\ Len(active_stream_ids) = 4
    /\ recv_result.path = "composed"
    /\ Len(recv_result.tiles) = 4
    /\ recv_result.width = 2 * TileWidth
    /\ recv_result.height = 2 * TileHeight
    /\ vision_frame_counter > 0
    /\ DOMAIN vision_extract = {0, 1, 2, 3}
    /\ vision_extract[3].col = 1
    /\ vision_extract[3].row = 1
    /\ vision_extract[3].frame.kind = "video"
    /\ vision_extract[3].frame.frame.stream_id = 3

\* the _transmission_loop tasks that are not done
LiveLoops == {t \in DOMAIN loop_tasks : loop_tasks[t] # "done"}

\* no step of the websocket manager is pending: no connect awaits accept(),
\* no stop_transmission task waits to run, no loop task is cancelled and not
\* yet ended, and no loop task is about to leave its while loop
SocketQuiescent ==
    /\ accepting = {}
    /\ stop_tasks = 0
    /\ \A t \in LiveLoops :
           /\ loop_tasks[t] = "running"
           /\ ws_is_running /\ active_connections # {}

\* C40: under every interleaving of connect, disconnect and the scheduled
\* stop_transmission, once all pending steps have run the transmission loop
\* task is running if and only if at least one client is connected, and at
\* no time is more than one transmission loop task running.
C40_LoopRunsIffClientConnected ==
    /\ Cardinality({t \in DOMAIN loop_tasks : loop_tasks[t] = "running"}) <= 1
    /\ SocketQuiescent => (LiveLoops # {} <=> active_connections # {})

====
